---- MODULE Spec2Model ----
(***************************************************************************)
(* Javari Engineering OS: the work-item lifecycle engine                   *)
(* (packages/workqueue, packages/builder-dispatch, reviewer dispatch) and  *)
(* the master orchestrator with its cron lock (runOnce, acquireLock,       *)
(* releaseLock).                                                           *)
(*                                                                         *)
(* Every awaited store call of a handler is one atomic step; the steps of  *)
(* concurrent invocations interleave.  Time is a clock in seconds.         *)
(***************************************************************************)
EXTENDS Integers, Sequences, FiniteSets, TLC

VARIABLES
  now,              \* wall clock, seconds
  audit_issues,     \* rows of table audit_issues of the audit run (input)
  work_items,       \* rows of table work_items
  pc,               \* position of each work-queue caller
  loc,              \* arguments and locals of each caller's current call
  ret,              \* value returned by each caller's last call
  chain,            \* observer: progress of each item along HappyPath
  cron_locks,       \* rows of table cron_locks
  autonomous_jobs,  \* rows of table autonomous_jobs
  autonomous_runs,  \* rows of table autonomous_runs
  alerts,           \* number of alerts sent by sendSlackAlert
  handler_calls,    \* number of executeHandler invocations
  abandoned,        \* handlers the timer outran, still running
  tpc,              \* position of each tick (runOnce invocation, GET request)
  tloc,             \* locals of each tick
  tret,             \* how each slot's current or last tick stands
  nextInstance,     \* number of ticks started so far
  crashed,          \* instances that died between acquire and release
  fnArgs,           \* arguments of the pure helpers being evaluated
  fnOut             \* what the helpers returned for fnArgs

wqVars   == <<audit_issues, work_items, pc, loc, ret, chain>>
lockVars == <<cron_locks, autonomous_jobs, autonomous_runs, alerts,
              handler_calls, abandoned, tpc, tloc, tret, nextInstance,
              crashed>>
fnVars   == <<fnArgs, fnOut>>
vars     == <<now, audit_issues, work_items, pc, loc, ret, chain, cron_locks,
              autonomous_jobs, autonomous_runs, alerts, handler_calls,
              abandoned, tpc, tloc, tret, nextInstance, crashed, fnArgs,
              fnOut>>

\* ------------------------------------------------------------------------
\* Bounds
\* ------------------------------------------------------------------------
MaxAttempts == 2      \* entries into FAILED explored per work item
MaxTime     == 56     \* the clock stops here
MaxTicks    == 3      \* runOnce invocations explored
MaxCrashes  == 1      \* invocations that die while holding the lock

Procs == {"p1", "p2"}
SeqCallers == {"p1"}     \* SpecWQ explores one caller at a time
Slots == {"t1", "t2"}

Null    == <<>>
Some(v) == <<v>>

\* ------------------------------------------------------------------------
\* Strings are sequences of characters, so that trim/toUpperCase/includes
\* are computed rather than assumed.
\* ------------------------------------------------------------------------
UpperChar(c) ==
  CASE c = "a" -> "A" [] c = "b" -> "B" [] c = "c" -> "C" [] c = "d" -> "D"
    [] c = "e" -> "E" [] c = "f" -> "F" [] c = "g" -> "G" [] c = "h" -> "H"
    [] c = "i" -> "I" [] c = "l" -> "L" [] c = "m" -> "M" [] c = "n" -> "N"
    [] c = "o" -> "O" [] c = "p" -> "P" [] c = "r" -> "R" [] c = "s" -> "S"
    [] c = "t" -> "T" [] c = "u" -> "U" [] c = "w" -> "W" [] c = "y" -> "Y"
    [] OTHER -> c

toUpperCase(s) == [i \in 1..Len(s) |-> UpperChar(s[i])]

includes(s, sub) ==
  \E i \in 0..(Len(s) - Len(sub)) :
    \A j \in 1..Len(sub) : s[i + j] = sub[j]

\* mapSeverity with LOW for the fall-through value
mapSeverity_infoAsLow(s) ==
  LET up == toUpperCase(s) IN
  IF includes(up, <<"C","R","I","T">>) THEN "CRITICAL"
  ELSE IF includes(up, <<"H","I","G","H">>) THEN "HIGH"
  ELSE IF includes(up, <<"M","E","D">>) THEN "MEDIUM"
  ELSE "LOW"

mapSeverity(s) ==
  LET up == toUpperCase(s) IN
  IF includes(up, <<"C","R","I","T">>) THEN "CRITICAL"
  ELSE IF includes(up, <<"H","I","G","H">>) THEN "HIGH"
  ELSE IF includes(up, <<"M","E","D">>) THEN "MEDIUM"
  ELSE IF includes(up, <<"L","O","W">>) THEN "LOW"
  ELSE "INFO"

mapCategory(c) ==
  LET up == toUpperCase(c) IN
  IF includes(up, <<"S","E","C">>) THEN "SECURITY"
  ELSE IF includes(up, <<"A","P","I">>) THEN "API"
  ELSE IF includes(up, <<"S","E","O">>) THEN "SEO"
  ELSE IF includes(up, <<"A","1","1","Y">>)
          \/ includes(up, <<"A","C","C","E","S","S">>) THEN "A11Y"
  ELSE IF includes(up, <<"P","E","R","F">>) THEN "PERF"
  ELSE IF includes(up, <<"D","A","T","A">>)
          \/ includes(up, <<"D","B">>) THEN "DATA"
  ELSE IF includes(up, <<"A","U","T","H">>) THEN "AUTH"
  ELSE IF includes(up, <<"P","A","Y">>) THEN "PAYMENTS"
  ELSE IF includes(up, <<"O","P","S">>) THEN "OPS"
  ELSE IF includes(up, <<"C","O","S","T">>) THEN "COST"
  ELSE "OTHER"

\* the enum values, as the character strings canonicalFingerprint receives
Chars(name) ==
  CASE name = "CRITICAL" -> <<"C","R","I","T","I","C","A","L">>
    [] name = "HIGH"     -> <<"H","I","G","H">>
    [] name = "MEDIUM"   -> <<"M","E","D","I","U","M">>
    [] name = "LOW"      -> <<"L","O","W">>
    [] name = "INFO"     -> <<"I","N","F","O">>
    [] name = "SECURITY" -> <<"S","E","C","U","R","I","T","Y">>
    [] name = "API"      -> <<"A","P","I">>
    [] name = "SEO"      -> <<"S","E","O">>
    [] name = "A11Y"     -> <<"A","1","1","Y">>
    [] name = "PERF"     -> <<"P","E","R","F">>
    [] name = "DATA"     -> <<"D","A","T","A">>
    [] name = "AUTH"     -> <<"A","U","T","H">>
    [] name = "PAYMENTS" -> <<"P","A","Y","M","E","N","T","S">>
    [] name = "OPS"      -> <<"O","P","S">>
    [] name = "COST"     -> <<"C","O","S","T">>
    [] OTHER             -> <<"O","T","H","E","R">>

\* String.prototype.trim
IsSpace(c) == c = " "

RECURSIVE trimStart(_)
trimStart(s) ==
  IF s # <<>> /\ IsSpace(Head(s)) THEN trimStart(Tail(s)) ELSE s

RECURSIVE trimEnd(_)
trimEnd(s) ==
  IF s # <<>> /\ IsSpace(s[Len(s)])
  THEN trimEnd(SubSeq(s, 1, Len(s) - 1)) ELSE s

trim(s) == trimEnd(trimStart(s))

\* Array.prototype.join(sep)
RECURSIVE join(_, _)
join(parts, sep) ==
  IF parts = <<>> THEN <<>>
  ELSE IF Len(parts) = 1 THEN parts[1]
  ELSE parts[1] \o sep \o join(Tail(parts), sep)

\* the digest is taken to be collision-free: it is the tagged preimage
sha256(s) == <<"sha256", s>>

\* the fingerprint with the locator left out of the hashed base
canonicalFingerprint_noUrl(category, severity, title, url) ==
  sha256(join(<<toUpperCase(trim(category)), toUpperCase(trim(severity)),
                trim(title)>>, <<"|">>))

\* url is the empty string where the caller passed none: (input.url || '')
canonicalFingerprint(category, severity, title, url) ==
  sha256(join(<<toUpperCase(trim(category)), toUpperCase(trim(severity)),
                trim(title), trim(url)>>, <<"|">>))

PriorityScore(severity) ==
  IF severity = "CRITICAL" THEN 95 ELSE IF severity = "HIGH" THEN 80 ELSE 50

\* the approval test with the CRITICAL disjunct lost
RequiresApproval_highOnly(severity) == severity = "HIGH"

RequiresApproval(severity) == severity \in {"CRITICAL", "HIGH"}

\* ------------------------------------------------------------------------
\* Work item state machine
\* ------------------------------------------------------------------------
WorkStatus == {"NEW", "DISPATCHED", "IN_PROGRESS", "PR_OPENED", "VERIFIED",
               "MERGED", "DEPLOYED", "BLOCKED", "FAILED", "SUPPRESSED"}

\* the table with the edge MERGED -> DEPLOYED left out
VALID_TRANSITIONS_noDeploy ==
  [s \in WorkStatus |->
     CASE s = "NEW"         -> {"DISPATCHED", "SUPPRESSED"}
       [] s = "DISPATCHED"  -> {"IN_PROGRESS", "FAILED", "BLOCKED"}
       [] s = "IN_PROGRESS" -> {"PR_OPENED", "FAILED", "BLOCKED"}
       [] s = "PR_OPENED"   -> {"VERIFIED", "FAILED", "BLOCKED"}
       [] s = "VERIFIED"    -> {"MERGED", "FAILED", "BLOCKED"}
       [] s = "MERGED"      -> {"FAILED"}
       [] s = "DEPLOYED"    -> {"SUPPRESSED"}
       [] s = "BLOCKED"     -> {"DISPATCHED", "FAILED", "SUPPRESSED"}
       [] s = "FAILED"      -> {"DISPATCHED", "SUPPRESSED"}
       [] s = "SUPPRESSED"  -> {}]

VALID_TRANSITIONS ==
  [s \in WorkStatus |->
     CASE s = "NEW"         -> {"DISPATCHED", "SUPPRESSED"}
       [] s = "DISPATCHED"  -> {"IN_PROGRESS", "FAILED", "BLOCKED"}
       [] s = "IN_PROGRESS" -> {"PR_OPENED", "FAILED", "BLOCKED"}
       [] s = "PR_OPENED"   -> {"VERIFIED", "FAILED", "BLOCKED"}
       [] s = "VERIFIED"    -> {"MERGED", "FAILED", "BLOCKED"}
       [] s = "MERGED"      -> {"DEPLOYED", "FAILED"}
       [] s = "DEPLOYED"    -> {"SUPPRESSED"}
       [] s = "BLOCKED"     -> {"DISPATCHED", "FAILED", "SUPPRESSED"}
       [] s = "FAILED"      -> {"DISPATCHED", "SUPPRESSED"}
       [] s = "SUPPRESSED"  -> {}]

\* the skip list with DEPLOYED left out
ActiveStatuses_noDeployed == {"IN_PROGRESS", "PR_OPENED", "VERIFIED", "MERGED"}

ActiveStatuses == {"IN_PROGRESS", "PR_OPENED", "VERIFIED", "MERGED", "DEPLOYED"}

\* fingerprint TEXT NOT NULL UNIQUE, with the constraint missing
FingerprintTaken_none(rows, fp) == FALSE

\* fingerprint TEXT NOT NULL UNIQUE: an insert of a second row fails
FingerprintTaken(rows, fp) == \E r \in rows : r.fingerprint = fp

\* ids a caller may name; work item ids are handed out in insertion order
CallIds == {1, 2}

NoItem == [id |-> 0, fingerprint |-> <<>>, severity |-> "INFO",
           source_run_id |-> 0,
           priority_score |-> 0, requires_approval |-> FALSE,
           approved_at |-> Null, status |-> "NEW", attempts |-> 0,
           last_error |-> "NULL", cooldown_until |-> Null]

\* .select(...).eq('id', id).single()
SelectById(id) ==
  IF \E r \in work_items : r.id = id
  THEN CHOOSE r \in work_items : r.id = id
  ELSE NoItem

\* .select('id, status').eq('fingerprint', fp).single()
SelectByFingerprint(fp) ==
  IF \E r \in work_items : r.fingerprint = fp
  THEN CHOOSE r \in work_items : r.fingerprint = fp
  ELSE NoItem

\* .update(...).eq('id', id): the row with that id, if any, becomes row
UpdateById(id, row) ==
  {IF r.id = id THEN row ELSE r : r \in work_items}

NoLoc == [op |-> "none", id |-> 0, toStatus |-> "NEW", error |-> "NULL",
          cooldownMinutes |-> 0, item |-> NoItem, runId |-> 0, idx |-> 0,
          queue |-> <<>>,
          created |-> 0, updated |-> 0, skipped |-> 0]

NoRet == [ok |-> FALSE, reason |-> "none"]

\* the columns a .select('status, attempts') / .select('id, status') reads
StatusAttempts(r) == [NoItem EXCEPT !.id = r.id, !.status = r.status,
                                    !.attempts = r.attempts]
IdStatus(r) == [NoItem EXCEPT !.id = r.id, !.status = r.status]

\* observer of the documented walk NEW -> ... -> DEPLOYED: chain[id] is 1
\* once NEW -> MERGED was refused, k + 1 after the k-th step of HappyPath
\* was then taken by transitionWorkItem, and 0 after any other write
HappyPath == <<"NEW", "DISPATCHED", "IN_PROGRESS", "PR_OPENED", "VERIFIED",
               "MERGED", "DEPLOYED">>
OffPath(id) == [chain EXCEPT ![id] = 0]

\* ------------------------------------------------------------------------
\* Lock manager: table cron_locks, acquireLock, releaseLock
\* ------------------------------------------------------------------------
LockKey  == "javari_master_cron"
LOCK_TTL == 55

ClockSteps == {55, 56}   \* the clock advances by one of these

NoJob == [id |-> 0, enabled |-> FALSE, schedule_type |-> "interval",
          interval_seconds |-> Null, priority |-> 0, handler |-> "none",
          last_run_at |-> Null, next_run_at |-> Null, last_status |-> "NULL",
          last_error |-> "NULL", consecutive_failures |-> 0]

NoTick == [instance |-> 0, expiresAt |-> 0, freeAtStart |-> FALSE,
           jobs |-> <<>>, idx |-> 0,
           job |-> NoJob, runId |-> 0, startTime |-> 0, status |-> "RUNNING",
           errorMsg |-> "NULL", issues |-> 0, fixes |-> 0,
           verification |-> FALSE, thrown |-> FALSE]

addSeconds(d, sec) == d + sec

\* .lt('expires_at', nowISO()) with every row taken for expired
IsExpired_always(row, t) == TRUE

\* .lt('expires_at', nowISO())
IsExpired(row, t) == row.expires_at < t

\* lock_key TEXT NOT NULL UNIQUE, with the constraint missing
UniqueViolation_none(locks, row) == FALSE

\* lock_key TEXT NOT NULL UNIQUE: an insert of a second row for a key fails
UniqueViolation(locks, row) == \E r \in locks : r.lock_key = row.lock_key

\* releaseLock whose delete matches no row
releaseLock_noop(locks, lockKey) == locks

\* supa.from('cron_locks').delete().eq('lock_key', lockKey)
releaseLock(locks, lockKey) == {r \in locks : r.lock_key # lockKey}

\* runOnce going on whether or not it got the lock
ProceedsAfterAcquire_always(gotLock) == TRUE

\* if (!gotLock) return;
ProceedsAfterAcquire(gotLock) == gotLock

\* observer: the key has no unexpired row (expires_at not in the past)
KeyIsFree ==
  ~\E r \in cron_locks : r.lock_key = LockKey /\ r.expires_at >= now

\* acquireLock, first statement: expiresAt = addSeconds(now(), ttlSeconds)
AcqStart(t) ==
  /\ tpc[t] = "idle"
  /\ t = "t2" => tpc["t1"] # "idle"   \* a new invocation takes the first idle slot
  /\ nextInstance < MaxTicks
  /\ nextInstance' = nextInstance + 1
  /\ tloc' = [tloc EXCEPT ![t] = [NoTick EXCEPT
                                    !.instance = nextInstance + 1,
                                    !.expiresAt = addSeconds(now, LOCK_TTL),
                                    !.freeAtStart = KeyIsFree]]
  /\ tpc' = [tpc EXCEPT ![t] = "acq_delete"]
  /\ tret' = [tret EXCEPT ![t] = "none"]
  /\ UNCHANGED <<now, wqVars, fnVars, cron_locks, autonomous_jobs, autonomous_runs,
                 alerts, handler_calls, abandoned, crashed>>

\* acquireLock, clean up expired locks (of every key)
AcqDelete(t) ==
  /\ tpc[t] = "acq_delete"
  /\ cron_locks' = {r \in cron_locks : ~IsExpired(r, now)}
  /\ tpc' = [tpc EXCEPT ![t] = "acq_insert"]
  /\ UNCHANGED <<now, wqVars, fnVars, autonomous_jobs, autonomous_runs, alerts,
                 handler_calls, abandoned, tloc, tret, nextInstance, crashed>>

\* acquireLock, the insert and `return !error`; then runOnce's test of gotLock
AcqInsert(t) ==
  /\ tpc[t] = "acq_insert"
  /\ LET row == [lock_key |-> LockKey, expires_at |-> tloc[t].expiresAt,
                 acquired_by |-> tloc[t].instance]
         gotLock == ~UniqueViolation(cron_locks, row)
     IN /\ cron_locks' = IF gotLock THEN cron_locks \cup {row} ELSE cron_locks
        /\ tret' = [tret EXCEPT ![t] = IF gotLock THEN "acquired" ELSE "skipped"]
        /\ tpc' = [tpc EXCEPT ![t] = IF ProceedsAfterAcquire(gotLock)
                                     THEN "fetch" ELSE "idle"]
  /\ UNCHANGED <<now, wqVars, fnVars, autonomous_jobs, autonomous_runs, alerts,
                 handler_calls, abandoned, tloc, nextInstance, crashed>>

Advance(d) ==
  /\ now + d <= MaxTime
  /\ now' = now + d
  /\ UNCHANGED <<wqVars, lockVars, fnVars>>

\* ------------------------------------------------------------------------
\* Master orchestrator: runOnce
\* ------------------------------------------------------------------------
\* seed rows of autonomous_jobs
JobHeartbeat == [NoJob EXCEPT !.id = 1, !.enabled = TRUE,
                              !.interval_seconds = Some(60),
                              !.priority = 100, !.handler = "heartbeat"]
JobSelfHeal  == [NoJob EXCEPT !.id = 2, !.enabled = TRUE,
                              !.interval_seconds = Some(300),
                              !.priority = 85, !.handler = "selfheal.monitor"]

JobWorkqueue == [NoJob EXCEPT !.id = 4, !.enabled = TRUE,
                              !.interval_seconds = Some(7200),
                              !.priority = 70,
                              !.handler = "workqueue.from_latest_audit"]
\* a row an operator adds: the monitor once more, at priority 80
JobMonitorAt80 == [JobSelfHeal EXCEPT !.id = 3, !.priority = 80]

\* isDue without the look at next_run_at
isDue_everyEnabled(job) == job.enabled

isDue(job) ==
  IF ~job.enabled THEN FALSE
  ELSE IF job.next_run_at = Null THEN TRUE
  ELSE job.next_run_at[1] <= now

computeNextRun(job) ==
  IF job.schedule_type = "interval" /\ job.interval_seconds # Null
     /\ job.interval_seconds[1] # 0
  THEN addSeconds(now, job.interval_seconds[1])
  ELSE addSeconds(now, 60)

\* .eq('enabled', true).order('priority', { ascending: false })
RECURSIVE OrderByPriorityDesc(_)
OrderByPriorityDesc(rows) ==
  IF rows = {} THEN <<>>
  ELSE LET top == CHOOSE r \in rows : \A q \in rows : q.priority <= r.priority
       IN <<top>> \o OrderByPriorityDesc(rows \ {top})

EnabledJobs == OrderByPriorityDesc({j \in autonomous_jobs : j.enabled})

\* what Promise.race([executeHandler(job), timeoutPromise]) can yield: the
\* static handlers resolve at once; selfheal.monitor awaits the store, so it
\* may also report issues, lose the race to the timer, or throw
HandlerOutcomes(handler) ==
  IF handler = "selfheal.monitor"
  THEN {"ok", "issues", "timeout", "throw"}
  ELSE {"ok"}

\* what the race hands to the try block: the result of the handler, or the
\* message of the error that rejected it
HandlerResult(outcome) ==
  IF outcome = "issues" THEN [issues |-> 1, fixes |-> 0, verification |-> TRUE]
  ELSE [issues |-> 0, fixes |-> 0, verification |-> TRUE]

ErrorMessage(outcome) ==
  IF outcome = "timeout" THEN "Job timeout"
  ELSE IF outcome = "throw" THEN "error"
  ELSE "NULL"

\* the classification with every caught error taken as a failure
RunStatusOf_caughtIsFail(outcome) ==
  IF ErrorMessage(outcome) # "NULL" THEN "FAIL"
  ELSE IF HandlerResult(outcome).issues > 0 /\ HandlerResult(outcome).fixes = 0
  THEN "DEGRADED"
  ELSE "SUCCESS"

\* let status = 'SUCCESS'; DEGRADED for issues > 0 && fixes === 0; in the
\* catch block TIMEOUT for the message 'Job timeout' and FAIL otherwise
RunStatusOf(outcome) ==
  IF ErrorMessage(outcome) # "NULL"
  THEN IF ErrorMessage(outcome) = "Job timeout" THEN "TIMEOUT" ELSE "FAIL"
  ELSE IF HandlerResult(outcome).issues > 0 /\ HandlerResult(outcome).fixes = 0
  THEN "DEGRADED"
  ELSE "SUCCESS"

ALERT_PRIORITY == 80

\* the locals that are still read once control has left the try block
LeavingTry(l, thrown) ==
  [NoTick EXCEPT !.instance = l.instance, !.expiresAt = l.expiresAt,
                 !.thrown = thrown]

Holding == {"fetch", "loop", "exec", "update_run", "update_job", "finally"}
Executing == {"fetch", "loop", "exec", "update_run", "update_job"}

\* the select of the enabled jobs; `if (jobsError) throw jobsError`
FetchJobs(t, jobsError) ==
  /\ tpc[t] = "fetch"
  /\ IF jobsError
     THEN /\ tloc' = [tloc EXCEPT ![t] = LeavingTry(@, TRUE)]
          /\ tpc' = [tpc EXCEPT ![t] = "finally"]
     ELSE /\ tloc' = [tloc EXCEPT ![t].jobs = EnabledJobs, ![t].idx = 1,
                                  ![t].freeAtStart = FALSE]
          /\ tpc' = [tpc EXCEPT ![t] = "loop"]
  /\ UNCHANGED <<now, wqVars, fnVars, cron_locks, autonomous_jobs, autonomous_runs,
                 alerts, handler_calls, abandoned, tret, nextInstance, crashed>>

\* head of the for loop: skip a job that is not due, else insert its Run row
LoopNext(t) ==
  /\ tpc[t] = "loop"
  /\ IF tloc[t].idx > Len(tloc[t].jobs)
     THEN /\ tpc' = [tpc EXCEPT ![t] = "finally"]
          /\ tloc' = [tloc EXCEPT ![t] = LeavingTry(@, FALSE)]
          /\ UNCHANGED autonomous_runs
     ELSE LET job == tloc[t].jobs[tloc[t].idx]
              runId == Cardinality(autonomous_runs) + 1
          IN IF ~isDue(job)
             THEN /\ tloc' = [tloc EXCEPT ![t].idx = @ + 1]
                  /\ UNCHANGED <<tpc, autonomous_runs>>
             ELSE /\ autonomous_runs' = autonomous_runs \cup
                       {[id |-> runId, job_id |-> job.id, started_at |-> now,
                         instance |-> tloc[t].instance,  \* observer
                         status |-> "RUNNING",
                         heartbeat |-> (job.handler = "heartbeat"),
                         completed_at |-> Null, duration_ms |-> Null,
                         issues_detected_count |-> 0,
                         fixes_applied_count |-> 0,
                         verification_passed |-> FALSE, error |-> "NULL"]}
                  /\ tloc' = [tloc EXCEPT ![t].job = job, ![t].runId = runId,
                                          ![t].startTime = now,
                                          ![t].status = "SUCCESS",
                                          ![t].errorMsg = "NULL"]
                  /\ tpc' = [tpc EXCEPT ![t] = "exec"]
  /\ UNCHANGED <<now, wqVars, fnVars, cron_locks, autonomous_jobs, alerts,
                 handler_calls, abandoned, tret, nextInstance, crashed>>

\* catch (err) { ... if (job.priority >= 80) await sendSlackAlert(...) }
AlertsFor(caught, priority) == caught /\ priority >= ALERT_PRIORITY

\* a rejection of the race that no catch block stops
AfterHandler_uncaught(outcome) ==
  IF outcome \in {"timeout", "throw"} THEN "finally" ELSE "update_run"

\* try { result = await Promise.race(...) } catch (err) { ... }: whatever the
\* race yields, control goes on to the update of the run record
AfterHandler(outcome) == "update_run"

\* a race in which the handler is withdrawn when the timer fires
Abandons_cancelled(outcome) == FALSE

\* Promise.race settles with the timer's rejection and nothing cancels the
\* promise of executeHandler: the handler goes on running
Abandons(outcome) == outcome = "timeout"

\* the try/catch around Promise.race, with the alert of the catch block
Exec(t, outcome) ==
  /\ tpc[t] = "exec"
  /\ outcome \in HandlerOutcomes(tloc[t].job.handler)
  /\ handler_calls' = handler_calls + 1
  /\ abandoned' = IF Abandons(outcome)
                  THEN abandoned \cup {[runId |-> tloc[t].runId,
                                        job_id |-> tloc[t].job.id,
                                        handler |-> tloc[t].job.handler]}
                  ELSE abandoned
  /\ LET caught == outcome \in {"timeout", "throw"}
     IN /\ tloc' = [tloc EXCEPT
                      ![t].status = RunStatusOf(outcome),
                      ![t].errorMsg = ErrorMessage(outcome),
                      ![t].issues = IF caught THEN 1
                                    ELSE HandlerResult(outcome).issues,
                      ![t].fixes = IF caught THEN 0
                                   ELSE HandlerResult(outcome).fixes,
                      ![t].verification =
                        ~caught /\ HandlerResult(outcome).verification]
        /\ alerts' = IF AlertsFor(caught, tloc[t].job.priority)
                     THEN alerts + 1 ELSE alerts
  /\ tpc' = [tpc EXCEPT ![t] = AfterHandler(outcome)]
  /\ UNCHANGED <<now, wqVars, fnVars, cron_locks, autonomous_jobs, autonomous_runs,
                 tret, nextInstance, crashed>>

\* the update of the run record with `status` left out
RunUpdate_noStatus(r, l) ==
  [r EXCEPT !.completed_at = Some(now),
            !.duration_ms = Some((now - l.startTime) * 1000),
            !.issues_detected_count = l.issues,
            !.fixes_applied_count = l.fixes,
            !.verification_passed = l.verification,
            !.error = l.errorMsg]

\* the update of the run record
RunUpdate(r, l) ==
  [r EXCEPT !.completed_at = Some(now),
            !.status = l.status,
            !.duration_ms = Some((now - l.startTime) * 1000),
            !.issues_detected_count = l.issues,
            !.fixes_applied_count = l.fixes,
            !.verification_passed = l.verification,
            !.error = l.errorMsg]

UpdateRun(t) ==
  /\ tpc[t] = "update_run"
  /\ autonomous_runs' =
       {IF r.id = tloc[t].runId THEN RunUpdate(r, tloc[t]) ELSE r :
          r \in autonomous_runs}
  /\ tpc' = [tpc EXCEPT ![t] = "update_job"]
  /\ UNCHANGED <<now, wqVars, fnVars, cron_locks, autonomous_jobs, alerts,
                 handler_calls, abandoned, tloc, tret, nextInstance, crashed>>

\* status === 'FAIL' ? (job.consecutive_failures || 0) + 1 : 0, where job is
\* the row as the tick fetched it
ConsecutiveFailures(status, job) ==
  IF status = "FAIL" THEN job.consecutive_failures + 1 ELSE 0

\* the update of the job row
UpdateJob(t) ==
  /\ tpc[t] = "update_job"
  /\ LET job == tloc[t].job
         consecutiveFailures == ConsecutiveFailures(tloc[t].status, job)
     IN autonomous_jobs' =
          {IF j.id = job.id
           THEN [j EXCEPT !.last_run_at = Some(now),
                          !.next_run_at = Some(computeNextRun(job)),
                          !.last_status = tloc[t].status,
                          !.last_error = tloc[t].errorMsg,
                          !.consecutive_failures = consecutiveFailures]
           ELSE j : j \in autonomous_jobs}
  /\ tloc' = [tloc EXCEPT ![t].idx = @ + 1]
  /\ tpc' = [tpc EXCEPT ![t] = "loop"]
  /\ UNCHANGED <<now, wqVars, fnVars, cron_locks, autonomous_runs, alerts,
                 handler_calls, abandoned, tret, nextInstance, crashed>>

\* an awaited store call of the for loop (the insert of the run record, its
\* update, the update of the job) rejects: control leaves the try block
JobLoopThrow(t) ==
  /\ tpc[t] \in {"loop", "update_run", "update_job"}
  /\ tloc' = [tloc EXCEPT ![t] = LeavingTry(@, TRUE)]
  /\ tpc' = [tpc EXCEPT ![t] = "finally"]
  /\ UNCHANGED <<now, wqVars, fnVars, cron_locks, autonomous_jobs, autonomous_runs,
                 alerts, handler_calls, abandoned, tret, nextInstance, crashed>>

\* finally { await releaseLock(lockKey) }, then runOnce returns or rethrows
Finally(t) ==
  /\ tpc[t] = "finally"
  /\ cron_locks' = releaseLock(cron_locks, LockKey)
  /\ tret' = [tret EXCEPT ![t] = IF tloc[t].thrown THEN "threw" ELSE "done"]
  /\ tpc' = [tpc EXCEPT ![t] = "idle"]
  /\ tloc' = [tloc EXCEPT ![t] = NoTick]
  /\ UNCHANGED <<now, wqVars, fnVars, autonomous_jobs, autonomous_runs, alerts,
                 handler_calls, abandoned, nextInstance, crashed>>

\* the process dies between acquire and release; its row stays in the table
Crash(t) ==
  /\ tpc[t] \in Holding
  /\ tret[t] = "acquired"
  /\ Cardinality(crashed) < MaxCrashes
  /\ crashed' = crashed \cup {[instance |-> tloc[t].instance,
                               expires_at |-> tloc[t].expiresAt]}
  /\ tret' = [tret EXCEPT ![t] = "crashed"]
  /\ tpc' = [tpc EXCEPT ![t] = "idle"]
  /\ tloc' = [tloc EXCEPT ![t] = NoTick]
  /\ UNCHANGED <<now, wqVars, fnVars, cron_locks, autonomous_jobs, autonomous_runs,
                 alerts, handler_calls, abandoned, nextInstance>>

\* no helper is being evaluated
InitFnIdle ==
  /\ fnArgs = <<>>
  /\ fnOut = <<>>

InitLock ==
  /\ InitFnIdle
  /\ now = 0
  /\ audit_issues = <<>>
  /\ work_items = {}
  /\ pc = [p \in Procs |-> "idle"]
  /\ loc = [p \in Procs |-> NoLoc]
  /\ ret = [p \in Procs |-> NoRet]
  /\ chain = [id \in CallIds |-> 0]
  /\ cron_locks = {}
  /\ autonomous_jobs = {JobHeartbeat}
  /\ autonomous_runs = {}
  /\ alerts = 0
  /\ handler_calls = 0
  /\ abandoned = {}
  /\ tpc = [t \in Slots |-> "idle"]
  /\ tloc = [t \in Slots |-> NoTick]
  /\ tret = [t \in Slots |-> "none"]
  /\ nextInstance = 0
  /\ crashed = {}

NextLock ==
  \/ \E t \in Slots :
       \/ AcqStart(t)
       \/ AcqDelete(t)
       \/ AcqInsert(t)
       \/ \E jobsError \in BOOLEAN : FetchJobs(t, jobsError)
       \/ LoopNext(t)
       \/ \E o \in {"ok", "issues", "timeout", "throw"} : Exec(t, o)
       \/ UpdateRun(t)
       \/ UpdateJob(t)
       \/ JobLoopThrow(t)
       \/ Finally(t)
       \/ Crash(t)
  \/ \E d \in ClockSteps : Advance(d)

SpecLock == InitLock /\ [][NextLock]_vars

\* ------------------------------------------------------------------------
\* Two triggers a minute apart over a job whose handler may outlast the lock
\* ------------------------------------------------------------------------
OverlapSteps == {56}
TickSlots == {"t1"}

InitOverlap ==
  /\ InitFnIdle
  /\ now = 0
  /\ audit_issues = <<>>
  /\ work_items = {}
  /\ pc = [p \in Procs |-> "idle"]
  /\ loc = [p \in Procs |-> NoLoc]
  /\ ret = [p \in Procs |-> NoRet]
  /\ chain = [id \in CallIds |-> 0]
  /\ cron_locks = {}
  /\ autonomous_jobs = {JobSelfHeal}
  /\ autonomous_runs = {}
  /\ alerts = 0
  /\ handler_calls = 0
  /\ abandoned = {}
  /\ tpc = [t \in Slots |-> "idle"]
  /\ tloc = [t \in Slots |-> NoTick]
  /\ tret = [t \in Slots |-> "none"]
  /\ nextInstance = 0
  /\ crashed = {}

NextOverlap ==
  \/ \E t \in Slots :
       \/ AcqStart(t)
       \/ AcqDelete(t)
       \/ AcqInsert(t)
       \/ \E jobsError \in BOOLEAN : FetchJobs(t, jobsError)
       \/ LoopNext(t)
       \/ \E o \in {"ok", "issues", "timeout", "throw"} : Exec(t, o)
       \/ UpdateRun(t)
       \/ UpdateJob(t)
       \/ JobLoopThrow(t)
       \/ Finally(t)
  \/ \E d \in OverlapSteps : Advance(d)

SpecOverlap == InitOverlap /\ [][NextOverlap]_vars

\* ------------------------------------------------------------------------
\* Ticks of one orchestrator over three jobs, two of which may fail, the
\* clock standing still
\* ------------------------------------------------------------------------
InitSiblings ==
  /\ InitFnIdle
  /\ now = 0
  /\ audit_issues = <<>>
  /\ work_items = {}
  /\ pc = [p \in Procs |-> "idle"]
  /\ loc = [p \in Procs |-> NoLoc]
  /\ ret = [p \in Procs |-> NoRet]
  /\ chain = [id \in CallIds |-> 0]
  /\ cron_locks = {}
  /\ autonomous_jobs = {JobSelfHeal, JobMonitorAt80, JobWorkqueue}
  /\ autonomous_runs = {}
  /\ alerts = 0
  /\ handler_calls = 0
  /\ abandoned = {}
  /\ tpc = [t \in Slots |-> "idle"]
  /\ tloc = [t \in Slots |-> NoTick]
  /\ tret = [t \in Slots |-> "none"]
  /\ nextInstance = 0
  /\ crashed = {}

NextSiblings ==
  \E t \in TickSlots :
    \/ AcqStart(t)
    \/ AcqDelete(t)
    \/ AcqInsert(t)
    \/ \E jobsError \in BOOLEAN : FetchJobs(t, jobsError)
    \/ LoopNext(t)
    \/ \E o \in {"ok", "issues", "timeout", "throw"} : Exec(t, o)
    \/ UpdateRun(t)
    \/ UpdateJob(t)
    \/ JobLoopThrow(t)
    \/ Finally(t)

SpecSiblings == InitSiblings /\ [][NextSiblings]_vars

\* ------------------------------------------------------------------------
\* One orchestrator, triggered minute after minute, over a job that always
\* succeeds and one whose handler may report issues, time out or throw
\* ------------------------------------------------------------------------
MaxTickTime == 300            \* the clock of the ticks stops here
TickSteps == {300}            \* after which both jobs are due again

\* time passes between two triggers and while a handler runs
AdvanceTick(d) ==
  /\ \A t \in TickSlots : tpc[t] \in {"idle", "exec"}
  /\ now + d <= MaxTickTime
  /\ now' = now + d
  /\ UNCHANGED <<wqVars, lockVars, fnVars>>

InitTick ==
  /\ InitFnIdle
  /\ now = 0
  /\ audit_issues = <<>>
  /\ work_items = {}
  /\ pc = [p \in Procs |-> "idle"]
  /\ loc = [p \in Procs |-> NoLoc]
  /\ ret = [p \in Procs |-> NoRet]
  /\ chain = [id \in CallIds |-> 0]
  /\ cron_locks = {}
  /\ autonomous_jobs = {JobHeartbeat, JobSelfHeal}
  /\ autonomous_runs = {}
  /\ alerts = 0
  /\ handler_calls = 0
  /\ abandoned = {}
  /\ tpc = [t \in Slots |-> "idle"]
  /\ tloc = [t \in Slots |-> NoTick]
  /\ tret = [t \in Slots |-> "none"]
  /\ nextInstance = 0
  /\ crashed = {}

NextTick ==
  \/ \E t \in TickSlots :
       \/ AcqStart(t)
       \/ AcqDelete(t)
       \/ AcqInsert(t)
       \/ \E jobsError \in BOOLEAN : FetchJobs(t, jobsError)
       \/ LoopNext(t)
       \/ \E o \in {"ok", "issues", "timeout", "throw"} : Exec(t, o)
       \/ UpdateRun(t)
       \/ UpdateJob(t)
       \/ JobLoopThrow(t)
       \/ Finally(t)
       \/ Crash(t)
  \/ \E d \in TickSteps : AdvanceTick(d)

SpecTick == InitTick /\ [][NextTick]_vars

\* ------------------------------------------------------------------------
\* Inputs: the audit issues of the run being converted
\* ------------------------------------------------------------------------
RunIds == {1, 2}

IssueCrit == [run_id |-> 1, severity |-> <<"C","r","i","t">>,
              category |-> <<"s","e","c">>,
              title |-> <<"c","r","o","n">>, url |-> <<"/","a">>]
IssueLow  == [run_id |-> 1, severity |-> <<"l","o","w">>,
              category |-> <<"a","p","i">>,
              title |-> <<"s","l","o","w">>, url |-> <<>>]
IssueInfo == [run_id |-> 1, severity |-> <<"i","n","f","o">>,
              category |-> <<"s","e","o">>,
              title |-> <<"n","o","t","e">>, url |-> <<>>]
\* the issue of IssueCrit found again by the next audit run
IssueCritAgain == [IssueCrit EXCEPT !.run_id = 2]
\* the issue of IssueLow reported a second time in the same run, spelt
\* differently
IssueLowDup == [IssueLow EXCEPT !.severity = <<"L","O","W">>,
                                !.title = <<"s","l","o","w"," ">>]

\* contents of table audit_issues
Batches == {<<IssueCrit, IssueCritAgain>>,
            <<IssueInfo, IssueLow, IssueLowDup>>}

\* .from('audit_issues').select('*').eq('run_id', runId)
IssuesOfRun(runId) ==
  SelectSeq(audit_issues, LAMBDA issue : issue.run_id = runId)

IssueFingerprint(issue) ==
  canonicalFingerprint(Chars(mapCategory(issue.category)),
                       Chars(mapSeverity(issue.severity)),
                       issue.title, issue.url)

\* workItemData of generateWorkItemsFromAuditRun, spread into a row
WorkItemData(issue, r, runId) ==
  [r EXCEPT !.fingerprint = IssueFingerprint(issue),
            !.source_run_id = runId,
            !.severity = mapSeverity(issue.severity),
            !.priority_score = PriorityScore(mapSeverity(issue.severity)),
            !.requires_approval = RequiresApproval(mapSeverity(issue.severity))]

\* ------------------------------------------------------------------------
\* transitionWorkItem(id, toStatus, opts)
\* ------------------------------------------------------------------------
\* the guard of transitionWorkItem with the table check dropped
IsValidTransition_unchecked(fromStatus, toStatus) == TRUE

IsValidTransition(fromStatus, toStatus) ==
  toStatus \in VALID_TRANSITIONS[fromStatus]

\* new Date(Date.now() + cooldownMinutes * 60000), in milliseconds
CooldownUntil(minutes) == now * 1000 + minutes * 60000

TransitionUpdates(r, l) ==
  [r EXCEPT !.status = l.toStatus,
            !.last_error = l.error,
            !.attempts = IF l.toStatus = "FAILED"
                         THEN l.item.attempts + 1 ELSE r.attempts,
            !.cooldown_until = IF l.cooldownMinutes # 0
                               THEN Some(CooldownUntil(l.cooldownMinutes))
                               ELSE r.cooldown_until]

TransitionRead(p, id, to, err, cool) ==
  /\ pc[p] = "idle"
  /\ LET item == SelectById(id)
         l == [NoLoc EXCEPT !.op = "transition", !.id = id, !.toStatus = to,
                            !.error = err, !.cooldownMinutes = cool,
                            !.item = StatusAttempts(item)]
     IN /\ ~(to = "FAILED" /\ item.attempts >= MaxAttempts)
        /\ loc' = [loc EXCEPT ![p] = l]
        /\ IF item = NoItem \/ ~IsValidTransition(item.status, to)
           THEN /\ pc' = [pc EXCEPT ![p] = "ret"]
                /\ ret' = [ret EXCEPT ![p] =
                             [ok |-> FALSE,
                              reason |-> IF item = NoItem THEN "not_found"
                                         ELSE "invalid_transition"]]
                /\ chain' = IF item # NoItem /\ item.status = "NEW"
                                /\ to = "MERGED" /\ chain[id] = 0
                             THEN [chain EXCEPT ![id] = 1] ELSE chain
           ELSE /\ pc' = [pc EXCEPT ![p] = "tw_write"]
                /\ ret' = ret
                /\ chain' = chain
  /\ UNCHANGED <<now, audit_issues, work_items, lockVars, fnVars>>

TransitionWrite(p) ==
  /\ pc[p] = "tw_write"
  /\ work_items' = UpdateById(loc[p].id,
                              TransitionUpdates(SelectById(loc[p].id), loc[p]))
  /\ pc' = [pc EXCEPT ![p] = "ret"]
  /\ ret' = [ret EXCEPT ![p] = [ok |-> TRUE, reason |-> "updated"]]
  /\ LET k == chain[loc[p].id]
     IN chain' = IF /\ k \in 1..(Len(HappyPath) - 1)
                    /\ SelectById(loc[p].id).status = HappyPath[k]
                    /\ loc[p].item.status = HappyPath[k]
                    /\ loc[p].toStatus = HappyPath[k + 1]
                 THEN [chain EXCEPT ![loc[p].id] = k + 1]
                 ELSE OffPath(loc[p].id)
  /\ UNCHANGED <<now, audit_issues, loc, lockVars, fnVars>>

\* ------------------------------------------------------------------------
\* dispatchWorkItem(workItemId)
\* ------------------------------------------------------------------------
\* a dispatcher that asks for no approval
NeedsApproval_never(item) == FALSE

\* workItem.requires_approval && !workItem.approved_at
NeedsApproval(item) == item.requires_approval /\ item.approved_at = Null

DispatchBlocked(r) ==
  [r EXCEPT !.status = "BLOCKED", !.last_error = "Requires approval"]

DispatchClaimed(r) == [r EXCEPT !.status = "DISPATCHED"]

DispatchFailed(r, item) ==
  [r EXCEPT !.status = "FAILED", !.last_error = "Builder failed",
            !.attempts = item.attempts + 1]

DispatchDone(r) == [r EXCEPT !.status = "IN_PROGRESS"]

\* where a dispatchWorkItem call returns to: its caller, or the for loop of
\* dispatchNextWorkItems
AfterDispatch(p) == IF loc[p].op = "dispatchNext" THEN "dn_loop" ELSE "ret"

DispatchRead(p, id) ==
  /\ pc[p] = "idle"
  /\ LET item == SelectById(id)
     IN /\ loc' = [loc EXCEPT ![p] = [NoLoc EXCEPT !.op = "dispatch",
                                                   !.id = id, !.item = item]]
        /\ IF item = NoItem
           THEN /\ pc' = [pc EXCEPT ![p] = "ret"]
                /\ ret' = [ret EXCEPT ![p] =
                             [ok |-> FALSE, reason |-> "Work item not found"]]
           ELSE /\ pc' = [pc EXCEPT ![p] = "d_claim"]
                /\ ret' = ret
  /\ UNCHANGED <<now, audit_issues, work_items, chain, lockVars, fnVars>>

DispatchClaim(p) ==
  /\ pc[p] = "d_claim"
  /\ IF NeedsApproval(loc[p].item)
     THEN /\ work_items' = UpdateById(loc[p].id,
                                     DispatchBlocked(SelectById(loc[p].id)))
          /\ pc' = [pc EXCEPT ![p] = AfterDispatch(p)]
          /\ ret' = [ret EXCEPT ![p] =
                       [ok |-> FALSE, reason |-> "approval_required"]]
     ELSE /\ work_items' = UpdateById(loc[p].id,
                                     DispatchClaimed(SelectById(loc[p].id)))
          /\ pc' = [pc EXCEPT ![p] = "d_build"]
          /\ ret' = ret
  /\ chain' = OffPath(loc[p].id)
  /\ UNCHANGED <<now, audit_issues, loc, lockVars, fnVars>>

\* the builder call (adapter.call) either throws or returns a response
DispatchBuild(p, builderOk) ==
  /\ pc[p] = "d_build"
  /\ IF builderOk
     THEN /\ work_items' = UpdateById(loc[p].id,
                                     DispatchDone(SelectById(loc[p].id)))
          /\ ret' = [ret EXCEPT ![p] = [ok |-> TRUE, reason |-> "dispatched"]]
     ELSE /\ loc[p].item.attempts < MaxAttempts
          /\ work_items' = UpdateById(loc[p].id,
                 DispatchFailed(SelectById(loc[p].id), loc[p].item))
          /\ ret' = [ret EXCEPT ![p] = [ok |-> FALSE, reason |-> "builder_error"]]
  /\ pc' = [pc EXCEPT ![p] = AfterDispatch(p)]
  /\ chain' = OffPath(loc[p].id)
  /\ UNCHANGED <<now, audit_issues, loc, lockVars, fnVars>>

\* ------------------------------------------------------------------------
\* dispatchNextWorkItems(limit = 5)
\* ------------------------------------------------------------------------
DISPATCH_LIMIT == 5

RECURSIVE OrderByScoreDesc(_)
OrderByScoreDesc(rows) ==
  IF rows = {} THEN <<>>
  ELSE LET top == CHOOSE r \in rows :
                    \A q \in rows : q.priority_score <= r.priority_score
       IN <<top.id>> \o OrderByScoreDesc(rows \ {top})

\* .select('id').eq('status', 'NEW').order('priority_score', desc).limit(limit)
NextNewIds(limit) ==
  LET ids == OrderByScoreDesc({r \in work_items : r.status = "NEW"})
  IN SubSeq(ids, 1, IF Len(ids) < limit THEN Len(ids) ELSE limit)

DispatchNextStart(p) ==
  /\ pc[p] = "idle"
  /\ loc' = [loc EXCEPT ![p] = [NoLoc EXCEPT !.op = "dispatchNext",
                                             !.queue = NextNewIds(DISPATCH_LIMIT)]]
  /\ pc' = [pc EXCEPT ![p] = "dn_loop"]
  /\ UNCHANGED <<now, audit_issues, work_items, ret, chain, lockVars, fnVars>>

\* head of the for loop: the read of dispatchWorkItem(item.id)
DispatchNextLoop(p) ==
  /\ pc[p] = "dn_loop"
  /\ IF loc[p].queue = <<>>
     THEN /\ pc' = [pc EXCEPT ![p] = "ret"]
          /\ ret' = [ret EXCEPT ![p] = [ok |-> TRUE, reason |-> "results"]]
          /\ loc' = loc
     ELSE LET id == Head(loc[p].queue)
              item == SelectById(id)
          IN /\ loc' = [loc EXCEPT ![p].id = id, ![p].item = item,
                                   ![p].queue = Tail(@)]
             /\ IF item = NoItem
                THEN /\ pc' = pc
                     /\ ret' = [ret EXCEPT ![p] =
                                  [ok |-> FALSE,
                                   reason |-> "Work item not found"]]
                ELSE /\ pc' = [pc EXCEPT ![p] = "d_claim"]
                     /\ ret' = ret
  /\ UNCHANGED <<now, audit_issues, work_items, chain, lockVars, fnVars>>

\* ------------------------------------------------------------------------
\* runArchitectReview(input): the verdict is the reviewer model's answer,
\* "unavailable" when the diff or the reviewer call fails (early return)
\* ------------------------------------------------------------------------
ReviewVerdicts == {"APPROVED", "CHANGES_REQUESTED", "REJECTED", "ERROR",
                   "unavailable"}

ReviewApproved(r) == [r EXCEPT !.status = "VERIFIED"]

ReviewRejected(r) ==
  [r EXCEPT !.status = "FAILED", !.last_error = "Architect rejected"]

runArchitectReview(p, id, verdict) ==
  /\ pc[p] = "idle"
  /\ work_items' = IF verdict = "APPROVED"
                   THEN UpdateById(id, ReviewApproved(SelectById(id)))
                   ELSE IF verdict = "REJECTED"
                   THEN UpdateById(id, ReviewRejected(SelectById(id)))
                   ELSE work_items
  /\ loc' = [loc EXCEPT ![p] = [NoLoc EXCEPT !.op = "review", !.id = id]]
  /\ chain' = IF verdict \in {"APPROVED", "REJECTED"} THEN OffPath(id) ELSE chain
  /\ pc' = [pc EXCEPT ![p] = "ret"]
  /\ ret' = [ret EXCEPT ![p] = [ok |-> verdict = "APPROVED", reason |-> verdict]]
  /\ UNCHANGED <<now, audit_issues, lockVars, fnVars>>

\* ------------------------------------------------------------------------
\* generateWorkItemsFromAuditRun(runId)
\* ------------------------------------------------------------------------
GenStart(p, runId) ==
  /\ pc[p] = "idle"
  /\ loc' = [loc EXCEPT ![p] = [NoLoc EXCEPT !.op = "generate",
                                             !.runId = runId, !.idx = 1]]
  /\ pc' = [pc EXCEPT ![p] = "g_lookup"]
  /\ UNCHANGED <<now, audit_issues, work_items, ret, chain, lockVars, fnVars>>

\* head of the for loop: the INFO filter, then the lookup by fingerprint
GenLookup(p) ==
  /\ pc[p] = "g_lookup"
  /\ LET issues == IssuesOfRun(loc[p].runId)
     IN IF loc[p].idx > Len(issues)
        THEN /\ pc' = [pc EXCEPT ![p] = "ret"]
             /\ ret' = [ret EXCEPT ![p] = [ok |-> TRUE, reason |-> "generated"]]
             /\ loc' = loc
        ELSE LET issue == issues[loc[p].idx]
                 existing == SelectByFingerprint(IssueFingerprint(issue))
             IN /\ ret' = ret
                /\ IF mapSeverity(issue.severity) = "INFO"
                      \/ (existing # NoItem
                            /\ existing.status \in ActiveStatuses)
                   THEN /\ loc' = [loc EXCEPT ![p].skipped = @ + 1,
                                              ![p].idx = @ + 1]
                        /\ pc' = pc
                   ELSE /\ loc' = [loc EXCEPT ![p].item = IdStatus(existing)]
                        /\ pc' = [pc EXCEPT ![p] = "g_write"]
  /\ UNCHANGED <<now, audit_issues, work_items, chain, lockVars, fnVars>>

\* the reopening update with `status: 'NEW'` left out
GenReopen_keepStatus(r, issue, runId) == WorkItemData(issue, r, runId)

\* .update({ ...workItemData, status: 'NEW' })
GenReopen(r, issue, runId) ==
  [WorkItemData(issue, r, runId) EXCEPT !.status = "NEW"]

\* .insert([{ ...workItemData, status: 'NEW' }]); the other columns take
\* their defaults
GenInsertRow(issue, runId) ==
  [WorkItemData(issue, NoItem, runId) EXCEPT
     !.id = Cardinality(work_items) + 1, !.status = "NEW"]

GenWrite(p) ==
  /\ pc[p] = "g_write"
  /\ LET issue == IssuesOfRun(loc[p].runId)[loc[p].idx]
     IN IF loc[p].item # NoItem
        THEN /\ work_items' = UpdateById(loc[p].item.id,
                                  GenReopen(SelectById(loc[p].item.id), issue,
                                            loc[p].runId))
             /\ chain' = OffPath(loc[p].item.id)
             /\ loc' = [loc EXCEPT ![p].updated = @ + 1, ![p].idx = @ + 1,
                                   ![p].item = NoItem]
        ELSE IF FingerprintTaken(work_items, IssueFingerprint(issue))
        THEN \* the insert is rejected: newItem is null
             /\ work_items' = work_items
             /\ chain' = chain
             /\ loc' = [loc EXCEPT ![p].idx = @ + 1]
        ELSE /\ work_items' = work_items
                                \cup {GenInsertRow(issue, loc[p].runId)}
             /\ chain' = chain
             /\ loc' = [loc EXCEPT ![p].created = @ + 1, ![p].idx = @ + 1]
  /\ pc' = [pc EXCEPT ![p] = "g_lookup"]
  /\ UNCHANGED <<now, audit_issues, ret, lockVars, fnVars>>

\* the caller takes the returned value; the invocation is over
Return(p) ==
  /\ pc[p] = "ret"
  /\ pc' = [pc EXCEPT ![p] = "idle"]
  /\ loc' = [loc EXCEPT ![p] = NoLoc]
  /\ ret' = [ret EXCEPT ![p] = NoRet]
  /\ UNCHANGED <<now, audit_issues, work_items, chain, lockVars, fnVars>>

InitLockIdle ==
  /\ cron_locks = {}
  /\ autonomous_jobs = {}
  /\ autonomous_runs = {}
  /\ alerts = 0
  /\ handler_calls = 0
  /\ abandoned = {}
  /\ tpc = [t \in Slots |-> "idle"]
  /\ tloc = [t \in Slots |-> NoTick]
  /\ tret = [t \in Slots |-> "none"]
  /\ nextInstance = 0
  /\ crashed = {}

InitWQ ==
  /\ InitFnIdle
  /\ now = 0
  /\ audit_issues \in Batches
  /\ work_items = {}
  /\ pc = [p \in Procs |-> "idle"]
  /\ loc = [p \in Procs |-> NoLoc]
  /\ ret = [p \in Procs |-> NoRet]
  /\ chain = [id \in CallIds |-> 0]
  /\ InitLockIdle

NextWQ ==
  \E p \in SeqCallers :
    \/ \E id \in CallIds, to \in WorkStatus, err \in {"NULL", "boom"},
          cool \in {0, 1} : TransitionRead(p, id, to, err, cool)
    \/ TransitionWrite(p)
    \/ \E id \in CallIds : DispatchRead(p, id)
    \/ DispatchClaim(p)
    \/ \E builderOk \in BOOLEAN : DispatchBuild(p, builderOk)
    \/ \E id \in CallIds, v \in ReviewVerdicts : runArchitectReview(p, id, v)
    \/ \E runId \in RunIds : GenStart(p, runId)
    \/ GenLookup(p)
    \/ GenWrite(p)
    \/ Return(p)

SpecWQ == InitWQ /\ [][NextWQ]_vars

\* cooldown_until of the row lies in the future
CoolingDown(r) ==
  r.cooldown_until # Null /\ r.cooldown_until[1] > now * 1000

\* C37: a work item whose cooldown_until lies in the future is not sent to
\* the builder: no dispatchWorkItem call goes on to the builder call for a
\* row that is cooling down
C37_NoDispatchWhileCoolingDown ==
  [][\A p \in SeqCallers :
       (pc[p] = "d_claim" /\ pc'[p] = "d_build") =>
         ~ CoolingDown(SelectById(loc[p].id))]_vars

\* ------------------------------------------------------------------------
\* Two dispatchers working concurrently on the queue that generation left
\* ------------------------------------------------------------------------
RowLow  == [WorkItemData(IssueLow, NoItem, 1) EXCEPT !.id = 1]
RowCrit == [WorkItemData(IssueCrit, NoItem, 1) EXCEPT !.id = 2]

InitDispatch ==
  /\ InitFnIdle
  /\ now = 0
  /\ audit_issues = <<IssueLow, IssueCrit>>
  /\ work_items \in {{RowLow}, {RowLow, RowCrit}}
  /\ pc = [p \in Procs |-> "idle"]
  /\ loc = [p \in Procs |-> NoLoc]
  /\ ret = [p \in Procs |-> NoRet]
  /\ chain = [id \in CallIds |-> 0]
  /\ InitLockIdle

NextDispatch ==
  \E p \in Procs :
    \/ \E id \in CallIds : DispatchRead(p, id)
    \/ DispatchNextStart(p)
    \/ DispatchNextLoop(p)
    \/ DispatchClaim(p)
    \/ \E builderOk \in BOOLEAN : DispatchBuild(p, builderOk)
    \/ Return(p)

SpecDispatch == InitDispatch /\ [][NextDispatch]_vars

\* ------------------------------------------------------------------------
\* Properties of the work-item state machine (checked under SpecWQ)
\* ------------------------------------------------------------------------
RowOf(rows, id) == CHOOSE r \in rows : r.id = id

\* ------------------------------------------------------------------------
\* Dispatchers on a queue with an item awaiting approval and an approved one
\* ------------------------------------------------------------------------
\* the row after an operator has approved it
Approved(r) == [r EXCEPT !.approved_at = Some(0)]

InitApproval ==
  /\ InitFnIdle
  /\ now = 0
  /\ audit_issues = <<IssueLow, IssueCrit>>
  /\ work_items \in {{RowLow, RowCrit}, {RowLow, Approved(RowCrit)}}
  /\ pc = [p \in Procs |-> "idle"]
  /\ loc = [p \in Procs |-> NoLoc]
  /\ ret = [p \in Procs |-> NoRet]
  /\ chain = [id \in CallIds |-> 0]
  /\ InitLockIdle

SpecApproval == InitApproval /\ [][NextDispatch]_vars

\* the stored row of the call of p asks for approval and has none
AwaitsApproval(p) ==
  LET r == SelectById(loc[p].id)
  IN r.requires_approval /\ r.approved_at = Null

\* C39: dispatchWorkItem never goes on to the builder call for an item with
\* requires_approval and no approved_at: it sets the item BLOCKED and
\* returns dispatched = false with reason approval_required
C39_NoBuilderWithoutApproval ==
  [][\A p \in Procs :
       /\ (pc[p] # "d_build" /\ pc'[p] = "d_build") => ~ AwaitsApproval(p)
       /\ (pc[p] = "d_claim" /\ pc'[p] # "d_claim" /\ AwaitsApproval(p)) =>
            /\ RowOf(work_items', loc[p].id).status = "BLOCKED"
            /\ ret'[p] = [ok |-> FALSE, reason |-> "approval_required"]]_vars

\* an item awaiting approval stands BLOCKED with its caller told so, while
\* the other caller is at the builder with the item that needs no approval
C39_Witness ==
  \E p, q \in Procs :
    /\ ret[p] = [ok |-> FALSE, reason |-> "approval_required"]
    /\ loc[p].id = 2
    /\ AwaitsApproval(p)
    /\ SelectById(2).status = "BLOCKED"
    /\ pc[q] = "d_build"
    /\ loc[q].id = 1
    /\ ~ SelectById(1).requires_approval

\* ------------------------------------------------------------------------
\* Two callers of transitionWorkItem working on one work item
\* ------------------------------------------------------------------------
InitTransitions ==
  /\ InitFnIdle
  /\ now = 0
  /\ audit_issues = <<IssueLow>>
  /\ work_items \in {{RowLow}, {DispatchClaimed(RowLow)}}
  /\ pc = [p \in Procs |-> "idle"]
  /\ loc = [p \in Procs |-> NoLoc]
  /\ ret = [p \in Procs |-> NoRet]
  /\ chain = [id \in CallIds |-> 0]
  /\ InitLockIdle

\* the statuses the two callers ask for
RequestedStatus == {"DISPATCHED", "IN_PROGRESS", "FAILED", "BLOCKED"}

NextTransitions ==
  \E p \in Procs :
    \/ \E id \in CallIds, to \in RequestedStatus :
         TransitionRead(p, id, to, "NULL", 0)
    \/ TransitionWrite(p)
    \/ Return(p)

SpecTransitions == InitTransitions /\ [][NextTransitions]_vars

\* C38: when two transitionWorkItem calls on one work item run concurrently
\* and both succeed, every status written follows the status it overwrites
\* by the transition table, and every write of FAILED raises attempts by one
C38_ConcurrentWritesFormPath ==
  [][\A p \in Procs :
       (pc[p] = "tw_write" /\ pc'[p] = "ret" /\ ret'[p].ok) =>
         LET before == SelectById(loc[p].id)
             after  == RowOf(work_items', loc[p].id)
         IN /\ IsValidTransition(before.status, after.status)
            /\ after.status = "FAILED" =>
                 after.attempts = before.attempts + 1]_vars

\* p starts a transitionWorkItem call in this step
StartsTransition(p) ==
  pc[p] = "idle" /\ pc'[p] # "idle" /\ loc'[p].op = "transition"

\* C1: every change of a work item's status, by whichever operation
\* (transitionWorkItem, generation, dispatch, review), is an edge of
\* VALID_TRANSITIONS.
C1_StatusChangesFollowTable ==
  [][\A r \in work_items : \A r2 \in work_items' :
       (r2.id = r.id /\ r2.status # r.status)
         => r2.status \in VALID_TRANSITIONS[r.status]]_vars

\* C2: a transitionWorkItem call whose target is not in the table entry of
\* the item's current status, or whose item does not exist, returns false
\* at once (no exception, no write step) and leaves every row unchanged.
C2_RejectedTransitionLeavesItem ==
  [][\A p \in Procs :
       (/\ StartsTransition(p)
        /\ LET item == SelectById(loc'[p].id)
           IN \/ item = NoItem
              \/ loc'[p].toStatus \notin VALID_TRANSITIONS[item.status])
       => /\ pc'[p] = "ret"
          /\ ret'[p].ok = FALSE
          /\ work_items' = work_items]_vars

\* a call was refused for an existing item because of the table
C2_Witness ==
  \E p \in Procs :
    /\ pc[p] = "ret" /\ loc[p].op = "transition"
    /\ ret[p].reason = "invalid_transition"
    /\ \E r \in work_items :
         /\ r.id = loc[p].id
         /\ r.attempts > 0 /\ r.last_error # "NULL" /\ r.cooldown_until # Null
         /\ loc[p].toStatus \notin VALID_TRANSITIONS[r.status]

\* C3: from a NEW item, transitionWorkItem to MERGED is refused, and each
\* call along NEW, DISPATCHED, IN_PROGRESS, PR_OPENED, VERIFIED, MERGED,
\* DEPLOYED is accepted, returns true and leaves the item in that status.
C3_HappyPathAccepted ==
  [][\A p \in Procs :
       LET id   == loc'[p].id
           item == SelectById(id)
       IN /\ (StartsTransition(p) /\ item # NoItem /\ item.status = "NEW"
                /\ loc'[p].toStatus = "MERGED")
              => (pc'[p] = "ret" /\ ~ret'[p].ok /\ work_items' = work_items)
          /\ \A k \in 1..(Len(HappyPath) - 1) :
               (StartsTransition(p) /\ item # NoItem
                  /\ item.status = HappyPath[k]
                  /\ loc'[p].toStatus = HappyPath[k + 1])
               => pc'[p] = "tw_write"
          /\ (pc[p] = "tw_write" /\ pc'[p] # "tw_write"
                /\ \E r \in work_items : r.id = loc[p].id)
              => /\ pc'[p] = "ret" /\ ret'[p].ok
                 /\ RowOf(work_items', loc[p].id).status = loc[p].toStatus]_vars

\* the whole walk happened: MERGED refused while NEW, then six accepted steps
C3_Witness ==
  \E p \in Procs :
    /\ pc[p] = "ret" /\ ret[p].ok /\ loc[p].op = "transition"
    /\ chain[loc[p].id] = Len(HappyPath)
    /\ \E r \in work_items : r.id = loc[p].id /\ r.status = "DEPLOYED"

\* C4: once a work item is SUPPRESSED, no operation changes its status.
C4_SuppressedIsTerminal ==
  [][\A r \in work_items : \A r2 \in work_items' :
       (r.status = "SUPPRESSED" /\ r2.id = r.id)
         => r2.status = "SUPPRESSED"]_vars

\* C11: two dispatchWorkItem calls that both read the same item as NEW
\* never both mark it DISPATCHED and go on to the builder call.
C11_NoDoubleDispatch ==
  \A p, q \in Procs :
    p # q =>
      ~(/\ pc[p] = "d_build" /\ pc[q] = "d_build"
        /\ loc[p].id = loc[q].id
        /\ loc[p].item.status = "NEW" /\ loc[q].item.status = "NEW")

\* the issue a generation call is working on
GenIssue(p) == IssuesOfRun(loc[p].runId)[loc[p].idx]

\* p is inside the for loop of a generation call, at an issue
AtIssue(p) ==
  pc[p] = "g_lookup" /\ loc[p].idx <= Len(IssuesOfRun(loc[p].runId))

\* p takes a step
Steps(p) == pc'[p] # pc[p] \/ loc'[p] # loc[p]

\* C12: whatever generation calls have run, one after another or
\* interleaved, on one batch or on several, no two rows of work_items have
\* the same fingerprint.
C12_FingerprintUnique ==
  \A r1, r2 \in work_items : r1.fingerprint = r2.fingerprint => r1 = r2

\* an insert of a generation call was turned down by the table: the call
\* has passed more issues than it counted
C12_Witness ==
  \E p \in Procs :
    /\ loc[p].op = "generate" /\ pc[p] = "g_lookup"
    /\ loc[p].idx - 1 > loc[p].created + loc[p].updated + loc[p].skipped
    /\ work_items # {}

\* C13: when generation reaches an issue whose fingerprint is that of an
\* item in IN_PROGRESS, PR_OPENED, VERIFIED, MERGED or DEPLOYED, it changes
\* no row, inserts none, counts the issue as skipped and goes to the next.
C13_ActiveItemSkipped ==
  [][\A p \in Procs :
       (/\ AtIssue(p) /\ Steps(p)
        /\ \E r \in work_items :
             /\ r.fingerprint = IssueFingerprint(GenIssue(p))
             /\ r.status \in {"IN_PROGRESS", "PR_OPENED", "VERIFIED",
                               "MERGED", "DEPLOYED"})
       => /\ work_items' = work_items
          /\ pc'[p] = "g_lookup"
          /\ loc'[p] = [loc[p] EXCEPT !.skipped = @ + 1, !.idx = @ + 1]]_vars

\* a call has just skipped an issue whose item is active
C13_Witness ==
  \E p \in Procs :
    /\ loc[p].op = "generate" /\ pc[p] = "g_lookup"
    /\ loc[p].idx > 1 /\ loc[p].skipped > 0
    /\ LET issue == IssuesOfRun(loc[p].runId)[loc[p].idx - 1]
       IN /\ mapSeverity(issue.severity) # "INFO"
          /\ \E r \in work_items :
               /\ r.fingerprint = IssueFingerprint(issue)
               /\ r.status = "DEPLOYED"

ReopenStatuses == {"NEW", "FAILED", "BLOCKED", "SUPPRESSED"}

\* C14: an issue whose fingerprint is that of an item in NEW, FAILED,
\* BLOCKED or SUPPRESSED makes generation write the issue's data over that
\* item and set its status to NEW, inserting nothing; an issue whose
\* fingerprint no item has makes it insert exactly one item, with status NEW.
C14_ReopenOrInsert ==
  [][\A p \in Procs :
       (pc[p] = "g_write" /\ pc'[p] # "g_write") =>
         LET issue == GenIssue(p)
             fp == IssueFingerprint(issue)
             sev == mapSeverity(issue.severity)
         IN /\ \A r \in work_items :
                 (r.fingerprint = fp /\ r.status \in ReopenStatuses) =>
                   /\ Cardinality(work_items') = Cardinality(work_items)
                   /\ \E r2 \in work_items' :
                        /\ r2.id = r.id /\ r2.status = "NEW"
                        /\ r2.fingerprint = fp /\ r2.severity = sev
                        /\ r2.source_run_id = loc[p].runId
                        /\ r2.attempts = r.attempts
                   /\ loc'[p].updated = loc[p].updated + 1
            /\ (~\E r \in work_items : r.fingerprint = fp) =>
                 /\ Cardinality(work_items') = Cardinality(work_items) + 1
                 /\ work_items \subseteq work_items'
                 /\ \A r2 \in work_items' \ work_items :
                      /\ r2.status = "NEW" /\ r2.fingerprint = fp
                      /\ r2.source_run_id = loc[p].runId
                 /\ loc'[p].created = loc[p].created + 1]_vars

\* an item that had failed was reopened by the generation of a later run
C14_Witness ==
  \E p \in Procs : \E r \in work_items :
    /\ loc[p].op = "generate" /\ loc[p].updated > 0 /\ loc[p].runId = 2
    /\ r.status = "NEW" /\ r.attempts > 0 /\ r.source_run_id = 2

\* C15: an issue whose severity is INFO makes generation change no row and
\* go to the next issue, counting it as skipped; no row has severity INFO.
C15_InfoNeverBecomesItem ==
  [][/\ \A p \in Procs :
          (/\ AtIssue(p) /\ Steps(p)
           /\ toUpperCase(GenIssue(p).severity) = <<"I","N","F","O">>)
          => /\ work_items' = work_items
             /\ pc'[p] = "g_lookup"
             /\ loc'[p] = [loc[p] EXCEPT !.skipped = @ + 1, !.idx = @ + 1]
     /\ \A r \in work_items' : r.severity # "INFO"]_vars

\* a call has passed an INFO issue and then created an item for the next
C15_Witness ==
  \E p \in Procs :
    /\ loc[p].op = "generate" /\ pc[p] = "g_lookup"
    /\ loc[p].idx > 2 /\ loc[p].skipped = 1 /\ loc[p].created = 1
    /\ toUpperCase(IssuesOfRun(loc[p].runId)[1].severity) = <<"I","N","F","O">>
    /\ Cardinality(work_items) = 1

\* C16: whenever a step changes an item's status into FAILED, the item's
\* attempts counter is one more than before the step.
C16_FailedIncrementsAttempts ==
  [][\A r \in work_items : \A r2 \in work_items' :
       (r2.id = r.id /\ r.status # "FAILED" /\ r2.status = "FAILED")
         => r2.attempts = r.attempts + 1]_vars

NextGen ==
  \E p \in Procs :
    \/ \E runId \in RunIds : GenStart(p, runId)
    \/ GenLookup(p)
    \/ GenWrite(p)
    \/ Return(p)

\* the table is empty, or holds the item of the batch's first issue of run 1
\* that becomes one, as an earlier generation and the item's life left it
InitGen ==
  /\ InitFnIdle
  /\ now = 0
  /\ audit_issues \in Batches
  /\ LET issue == CHOOSE i \in {audit_issues[k] : k \in 1..Len(audit_issues)} :
                     i.run_id = 1 /\ mapSeverity(i.severity) # "INFO"
         row == [WorkItemData(issue, NoItem, 1) EXCEPT !.id = 1]
     IN work_items \in {{}, {[row EXCEPT !.status = "FAILED", !.attempts = 1]},
                        {[row EXCEPT !.status = "DEPLOYED"]}}
  /\ pc = [p \in Procs |-> "idle"]
  /\ loc = [p \in Procs |-> NoLoc]
  /\ ret = [p \in Procs |-> NoRet]
  /\ chain = [id \in CallIds |-> 0]
  /\ InitLockIdle

SpecGen == InitGen /\ [][NextGen]_vars

\* ------------------------------------------------------------------------
\* The pure helpers of generation, applied to a pair of inputs
\* ------------------------------------------------------------------------
FnCategories == {<<"s","e","c">>, <<"S","E","C">>}
FnSeverities == {<<"c","r","i","t">>, <<"h","i","g","h">>, <<"m","e","d">>,
                 <<"l","o","w">>, <<"L","O","W">>}
FnTitles     == {<<"t">>, <<"t"," ">>, <<"u">>}
FnUrls       == {<<>>, <<"/">>, <<" ","/">>}

FnInputs == [category : FnCategories, severity : FnSeverities,
             title : FnTitles, url : FnUrls]

InitFn ==
  /\ fnArgs \in [a : FnInputs, b : FnInputs]
  /\ fnOut = <<>>
  /\ now = 0
  /\ audit_issues = <<>>
  /\ work_items = {}
  /\ pc = [p \in Procs |-> "idle"]
  /\ loc = [p \in Procs |-> NoLoc]
  /\ ret = [p \in Procs |-> NoRet]
  /\ chain = [id \in CallIds |-> 0]
  /\ InitLockIdle

\* canonicalFingerprint(input) for each of the two inputs
ApplyFingerprint ==
  /\ fnOut = <<>>
  /\ fnOut' = [op |-> "fingerprint",
               a |-> canonicalFingerprint(fnArgs.a.category, fnArgs.a.severity,
                                          fnArgs.a.title, fnArgs.a.url),
               b |-> canonicalFingerprint(fnArgs.b.category, fnArgs.b.severity,
                                          fnArgs.b.title, fnArgs.b.url)]
  /\ UNCHANGED <<now, wqVars, lockVars, fnArgs>>

\* the workItemData that generation builds for each of the two as an issue
ApplyWorkItemData ==
  /\ fnOut = <<>>
  /\ fnOut' = [op |-> "workItemData",
               a |-> WorkItemData(fnArgs.a, NoItem, 1),
               b |-> WorkItemData(fnArgs.b, NoItem, 1)]
  /\ UNCHANGED <<now, wqVars, lockVars, fnArgs>>

NextFn == ApplyFingerprint \/ ApplyWorkItemData

SpecFn == InitFn /\ [][NextFn]_vars

SeverityRank(severity) ==
  CASE severity = "CRITICAL" -> 4 [] severity = "HIGH" -> 3
    [] severity = "MEDIUM" -> 2 [] severity = "LOW" -> 1 [] OTHER -> 0

\* C17: the priority_score of the generated item depends on the severity
\* alone, and of two items the one of higher severity has the strictly
\* greater score, over CRITICAL > HIGH > MEDIUM > LOW.
C17_PriorityStrictlyMonotonic ==
  (fnOut # <<>> /\ fnOut.op = "workItemData") =>
    /\ fnOut.a.severity = fnOut.b.severity
         => fnOut.a.priority_score = fnOut.b.priority_score
    /\ SeverityRank(fnOut.a.severity) > SeverityRank(fnOut.b.severity)
         => fnOut.a.priority_score > fnOut.b.priority_score

FnFields == {"category", "severity", "title", "url"}

\* the fields in which two inputs differ
DifferingFields(x, y) == {f \in FnFields : x[f] # y[f]}

\* the input as the fingerprint reads it
Canonical(x) == [category |-> toUpperCase(trim(x.category)),
                 severity |-> toUpperCase(trim(x.severity)),
                 title |-> trim(x.title), url |-> trim(x.url)]

StaleRow == [lock_key |-> LockKey, expires_at |-> -1, acquired_by |-> 0]
ValidRow == [lock_key |-> LockKey, expires_at |-> 55, acquired_by |-> 0]

InitAcquire ==
  /\ InitFnIdle
  /\ now = 0
  /\ audit_issues = <<>>
  /\ work_items = {}
  /\ pc = [p \in Procs |-> "idle"]
  /\ loc = [p \in Procs |-> NoLoc]
  /\ ret = [p \in Procs |-> NoRet]
  /\ chain = [id \in CallIds |-> 0]
  /\ cron_locks \in {{}, {StaleRow}, {ValidRow}}
  /\ autonomous_jobs = {JobHeartbeat}
  /\ autonomous_runs = {}
  /\ alerts = 0
  /\ handler_calls = 0
  /\ abandoned = {}
  /\ tpc = [t \in Slots |-> "idle"]
  /\ tloc = [t \in Slots |-> NoTick]
  /\ tret = [t \in Slots |-> "none"]
  /\ nextInstance = 0
  /\ crashed = {}

NextAcquire ==
  \/ \E t \in Slots :
       \/ AcqStart(t)
       \/ AcqDelete(t)
       \/ AcqInsert(t)
  \/ \E d \in ClockSteps : Advance(d)

SpecAcquire == InitAcquire /\ [][NextAcquire]_vars

\* ------------------------------------------------------------------------
\* Properties of the lock and of runOnce
\* ------------------------------------------------------------------------
AcquireReturned(t) == tret[t] \in {"acquired", "skipped"}

\* C5 (SpecAcquire): when two acquireLock calls for the key, each begun
\* while the key had no unexpired row, have both returned before the
\* expires_at of either, exactly one of them returned true.
C5_ExactlyOneAcquires ==
  \A t, u \in Slots :
    (/\ t # u
     /\ AcquireReturned(t) /\ AcquireReturned(u)
     /\ tloc[t].freeAtStart /\ tloc[u].freeAtStart
     /\ now <= tloc[t].expiresAt /\ now <= tloc[u].expiresAt)
    => ((tret[t] = "acquired") # (tret[u] = "acquired"))

\* two overlapping calls on a table with a stale row: one won, one lost
C5_Witness ==
  \E t, u \in Slots :
    /\ tloc[t].freeAtStart /\ tloc[u].freeAtStart
    /\ tret[t] = "acquired" /\ tret[u] = "skipped"
    /\ now <= tloc[t].expiresAt /\ now <= tloc[u].expiresAt
    /\ StaleRow \notin cron_locks /\ Cardinality(cron_locks) = 1
    /\ tloc[t].instance > tloc[u].instance

LiveHolder(t) ==
  tret[t] = "acquired" /\ tpc[t] \in Executing /\ now < tloc[t].expiresAt

\* C6 (SpecLock): the lock gives mutual exclusion, also when a tick finishes
\* and releases after its own TTL: while a tick that acquired the lock is
\* executing jobs before its expires_at, no other tick has acquired the lock
\* and executes jobs under an unexpired lock of its own.
C6_MutualExclusion ==
  \A t, u \in Slots : t # u => ~(LiveHolder(t) /\ LiveHolder(u))

\* C7 (SpecLock): the table holds at most one non-expired row per lock key.
C7_OneLiveRowPerKey ==
  \A r1, r2 \in cron_locks :
    (r1.lock_key = r2.lock_key /\ r1.expires_at >= now /\ r2.expires_at >= now)
      => r1 = r2

\* a later acquisition, made after a release and before the first row would
\* have expired, holds the only row, and another tick was refused
C7_Witness ==
  /\ Cardinality(cron_locks) = 1
  /\ \E r \in cron_locks :
       r.expires_at >= now /\ r.acquired_by >= 2 /\ r.expires_at = LOCK_TTL
  /\ \E t \in Slots : tret[t] = "skipped"

\* C8 (SpecLock): a runOnce that acquired the lock returns only through the
\* release: it never returns while still marked as holding, and the step in
\* which it returns (normally or by rethrowing) leaves no row for the key.
C8_ReleaseOnEveryExit ==
  [][\A t \in Slots :
       /\ (tret'[t] = "acquired" => tpc'[t] \in Holding)
       /\ (tpc[t] \in Holding /\ tpc'[t] = "idle" /\ tret'[t] # "crashed")
            => /\ tret'[t] \in {"done", "threw"}
               /\ \A r \in cron_locks' : r.lock_key # LockKey]_vars

\* a tick left by an exception, the lock row is gone
C8_Witness ==
  \E t \in Slots :
    /\ tpc[t] = "idle" /\ tret[t] = "threw"
    /\ autonomous_runs # {}
    /\ cron_locks = {}

\* C9 (SpecLock): a tick whose acquisition fails has no side effects: its
\* cleanup removes only expired lock rows, and the refused insert makes it
\* return at once with the lock table, the Run rows, the Job rows, the
\* alerts and the handler invocations all unchanged.
C9_FailedAcquireNoSideEffects ==
  [][\A t \in Slots :
       /\ (tpc[t] = "acq_delete" /\ tpc'[t] # "acq_delete")
            => /\ \A r \in cron_locks : r.expires_at >= now => r \in cron_locks'
               /\ UNCHANGED <<autonomous_runs, autonomous_jobs, alerts,
                              handler_calls>>
       /\ (/\ tpc[t] = "acq_insert" /\ tpc'[t] # "acq_insert"
           /\ \E r \in cron_locks : r.lock_key = LockKey)
            => /\ tpc'[t] = "idle" /\ tret'[t] = "skipped"
               /\ UNCHANGED <<cron_locks, autonomous_runs, autonomous_jobs,
                              alerts, handler_calls>>]_vars

\* a tick was turned away while another one holds an unexpired row
C9_Witness ==
  \E t, u \in Slots :
    /\ tpc[t] = "idle" /\ tret[t] = "skipped"
    /\ tret[u] = "acquired" /\ tpc[u] \in Executing
    /\ \E r \in cron_locks :
         r.acquired_by = tloc[u].instance /\ r.expires_at >= now

\* C10 (SpecLock): a lock left behind by a crashed tick blocks every
\* acquireLock up to its expires_at, and no longer afterwards: an insert
\* made while a crashed holder's expires_at has not passed is refused, and
\* the cleanup step of an acquireLock that runs after that expires_at
\* removes the crashed holder's row, so that it cannot block the insert.
C10_CrashedLockHoldsUntilExpiry ==
  [][\A u \in Slots :
       /\ (tpc[u] = "acq_insert" /\ tpc'[u] # "acq_insert"
             /\ \E c \in crashed : now <= c.expires_at)
            => tret'[u] = "skipped"
       /\ (tpc[u] = "acq_delete" /\ tpc'[u] # "acq_delete")
            => \A r \in cron_locks' :
                 ~\E c \in crashed : /\ c.instance = r.acquired_by
                                      /\ c.expires_at < now]_vars

\* the Run rows that invocation i inserted
RunsOf(i) == {r \in autonomous_runs : r.instance = i}

\* C20: when a tick has returned, every Run row it inserted has a status
\* other than RUNNING, a completed_at and a duration, whatever the handler
\* did (returned, reported issues, timed out, threw), and the row's Job has
\* last_run_at, next_run_at and last_status set; the update of a Run row
\* writes the status the tick computed.
C20_RunsFinalized ==
  [][/\ \A t \in Slots :
          (tpc[t] # "idle" /\ tpc'[t] = "idle" /\ tret'[t] = "done") =>
            \A r \in autonomous_runs' :
              r.instance = tloc[t].instance =>
                /\ r.status \in {"SUCCESS", "DEGRADED", "TIMEOUT", "FAIL"}
                /\ r.completed_at # Null /\ r.duration_ms # Null
                /\ \E j \in autonomous_jobs' :
                     /\ j.id = r.job_id
                     /\ j.last_run_at # Null /\ j.next_run_at # Null
                     /\ j.last_status # "NULL"
     /\ \A t \in Slots :
          (tpc[t] = "update_job" /\ tpc'[t] = "loop") =>
            \E j \in autonomous_jobs' : \E r \in autonomous_runs' :
              /\ j.id = tloc[t].job.id /\ r.id = tloc[t].runId
              /\ r.status # "RUNNING"
              /\ j.last_status = r.status
              /\ j.last_run_at = Some(now)
              /\ j.next_run_at # Null /\ j.next_run_at[1] > now]_vars

\* a tick has returned after one handler succeeded and the other timed out
C20_Witness ==
  \E t \in Slots :
    /\ tpc[t] = "idle" /\ tret[t] = "done"
    /\ \E r1, r2 \in RunsOf(nextInstance) :
         r1.status = "SUCCESS" /\ r2.status = "TIMEOUT"
    /\ \E r3 \in autonomous_runs : r3.status = "FAIL"

\* ------------------------------------------------------------------------
\* Cron master route: the cron expression matcher shouldRunNow
\* ------------------------------------------------------------------------
\* a number is <<n>>; NaN is the empty tuple, equal to no number
NaN == <<>>

IsDigit(c) == c \in {"0", "1", "2", "3", "4", "5", "6", "7", "8", "9"}

DigitVal(c) ==
  CASE c = "0" -> 0 [] c = "1" -> 1 [] c = "2" -> 2 [] c = "3" -> 3
    [] c = "4" -> 4 [] c = "5" -> 5 [] c = "6" -> 6 [] c = "7" -> 7
    [] c = "8" -> 8 [] c = "9" -> 9

RECURSIVE DigitsVal(_)
DigitsVal(s) ==
  IF s = <<>> THEN 0
  ELSE DigitsVal(SubSeq(s, 1, Len(s) - 1)) * 10 + DigitVal(s[Len(s)])

RECURSIVE LeadingDigits(_)
LeadingDigits(s) ==
  IF s # <<>> /\ IsDigit(Head(s)) THEN <<Head(s)>> \o LeadingDigits(Tail(s))
  ELSE <<>>

\* white space as parseInt and Number skip it
IsWhite(c) == c \in {" ", "\t"}

RECURSIVE SkipWhite(_)
SkipWhite(s) == IF s # <<>> /\ IsWhite(Head(s)) THEN SkipWhite(Tail(s)) ELSE s

RECURSIVE DropWhiteEnd(_)
DropWhiteEnd(s) ==
  IF s # <<>> /\ IsWhite(s[Len(s)])
  THEN DropWhiteEnd(SubSeq(s, 1, Len(s) - 1)) ELSE s

Signed(neg, n) == IF neg THEN 0 - n ELSE n

\* parseInt(s, 10): leading white space, a sign, then the longest run of
\* digits; NaN when there is none
parseInt(s) ==
  LET t == SkipWhite(s)
      signed == t # <<>> /\ t[1] \in {"-", "+"}
      body == IF signed THEN Tail(t) ELSE t
      d == LeadingDigits(body)
  IN IF d = <<>> THEN NaN
     ELSE <<Signed(signed /\ t[1] = "-", DigitsVal(d))>>

\* Number(s) for decimal integers: white space trimmed, the empty string is
\* 0, anything but a sign and digits is NaN
Number(s) ==
  LET t == DropWhiteEnd(SkipWhite(s))
      signed == t # <<>> /\ t[1] \in {"-", "+"}
      body == IF signed THEN Tail(t) ELSE t
  IN IF t = <<>> THEN <<0>>
     ELSE IF body # <<>> /\ LeadingDigits(body) = body
     THEN <<Signed(signed /\ t[1] = "-", DigitsVal(body))>>
     ELSE NaN

\* String.prototype.split(sep) for a separator of one character
RECURSIVE split(_, _)
split(s, sep) ==
  IF \A i \in 1..Len(s) : s[i] # sep THEN <<s>>
  ELSE LET k == CHOOSE i \in 1..Len(s) :
                  s[i] = sep /\ \A j \in 1..(i - 1) : s[j] # sep
       IN <<SubSeq(s, 1, k - 1)>> \o split(SubSeq(s, k + 1, Len(s)), sep)

startsWith(s, prefix) ==
  Len(s) >= Len(prefix) /\ SubSeq(s, 1, Len(prefix)) = prefix

\* String.prototype.slice(start)
slice(s, start) == SubSeq(s, start + 1, Len(s))

Abs(n) == IF n < 0 THEN 0 - n ELSE n

\* the Date getters of `now`, the clock counting seconds from
\* 1970-01-01T00:00 (a Thursday) in the zone of the process, within January
getMinutes(t) == (t \div 60) % 60
getHours(t) == (t \div 3600) % 24
getDate(t) == (t \div 86400) + 1
getMonth(t) == 0
getDay(t) == (4 + (t \div 86400)) % 7

\* const matches = (field, value) => ...
matches(field, value) ==
  IF field = <<"*">> THEN TRUE
  ELSE IF startsWith(field, <<"*", "/">>)
  THEN LET interval == parseInt(slice(field, 2))
       IN interval # NaN /\ interval[1] # 0
          /\ value % Abs(interval[1]) = 0
  ELSE IF includes(field, <<"-">>)
  THEN LET parts == split(field, "-")
           start == Number(parts[1])
           end == Number(parts[2])
       IN start # NaN /\ end # NaN /\ value >= start[1] /\ value <= end[1]
  ELSE IF includes(field, <<",">>)
  THEN LET parts == split(field, ",")
       IN \E i \in 1..Len(parts) : Number(parts[i]) = <<value>>
  ELSE parseInt(field) = <<value>>

shouldRunNow(cronExpression) ==
  LET minute == getMinutes(now)
      hour == getHours(now)
      dayOfMonth == getDate(now)
      month == getMonth(now) + 1
      dayOfWeek == getDay(now)
      parts == split(cronExpression, " ")
  IN IF Len(parts) # 5 THEN FALSE
     ELSE /\ matches(parts[1], minute)
          /\ matches(parts[2], hour)
          /\ matches(parts[3], dayOfMonth)
          /\ matches(parts[4], month)
          /\ matches(parts[5], dayOfWeek)

\* cron expressions as an operator writes them: each field a wildcard, a
\* step, a range, a list or an integer, the fields set apart by white space
Wildcard == [kind |-> "any"]
Step(n) == [kind |-> "step", n |-> n]
Range(a, b) == [kind |-> "range", a |-> a, b |-> b]
List(xs) == [kind |-> "list", xs |-> xs]
Exact(v) == [kind |-> "exact", v |-> v]

RECURSIVE ToDigits(_)
ToDigits(n) ==
  LET d == <<"0", "1", "2", "3", "4", "5", "6", "7", "8", "9">>[(n % 10) + 1]
  IN IF n < 10 THEN <<d>> ELSE ToDigits(n \div 10) \o <<d>>

FieldText(f) ==
  CASE f.kind = "any"   -> <<"*">>
    [] f.kind = "step"  -> <<"*", "/">> \o ToDigits(f.n)
    [] f.kind = "range" -> ToDigits(f.a) \o <<"-">> \o ToDigits(f.b)
    [] f.kind = "list"  -> join([i \in 1..Len(f.xs) |-> ToDigits(f.xs[i])],
                                <<",">>)
    [] f.kind = "exact" -> ToDigits(f.v)

ExprText(fields, sep) ==
  join([i \in 1..Len(fields) |-> FieldText(fields[i])], sep)

MinuteFields == {Wildcard, Step(15), Range(0, 15), List(<<15, 30>>), Exact(16),
                 Exact(0)}
HourFields == {Wildcard, Exact(2)}
DayFields == {Wildcard, Exact(1)}
MonthFields == {Wildcard}
WeekdayFields == {Wildcard, Range(1, 5), Exact(0)}
Separators == {<<" ">>, <<" ", " ">>, <<"\t">>}
FieldCounts == {4, 5, 6}
CronTimes == {0, 900, 960, 8100, 261000}

CronInputs ==
  {[fields |-> SubSeq(<<m, h, d, mo, w, Wildcard>>, 1, n), sep |-> sep] :
     m \in MinuteFields, h \in HourFields, d \in DayFields,
     mo \in MonthFields, w \in WeekdayFields, sep \in Separators,
     n \in FieldCounts}

InitCronFn ==
  /\ fnArgs \in CronInputs
  /\ fnOut = <<>>
  /\ now \in CronTimes
  /\ audit_issues = <<>>
  /\ work_items = {}
  /\ pc = [p \in Procs |-> "idle"]
  /\ loc = [p \in Procs |-> NoLoc]
  /\ ret = [p \in Procs |-> NoRet]
  /\ chain = [id \in CallIds |-> 0]
  /\ InitLockIdle

\* shouldRunNow(job.cron_expression)
ApplyShouldRunNow ==
  /\ fnOut = <<>>
  /\ fnOut' = [op |-> "shouldRunNow",
               due |-> shouldRunNow(ExprText(fnArgs.fields, fnArgs.sep))]
  /\ UNCHANGED <<now, wqVars, lockVars, fnArgs>>

NextCronFn == ApplyShouldRunNow

SpecCronFn == InitCronFn /\ [][NextCronFn]_vars

\* what section 4.1 asks of one field
FieldDue(f, value) ==
  CASE f.kind = "any"   -> TRUE
    [] f.kind = "step"  -> value % f.n = 0
    [] f.kind = "range" -> f.a <= value /\ value <= f.b
    [] f.kind = "list"  -> \E i \in 1..Len(f.xs) : f.xs[i] = value
    [] f.kind = "exact" -> f.v = value

TimeFields(t) ==
  <<getMinutes(t), getHours(t), getDate(t), getMonth(t) + 1, getDay(t)>>

\* C26: shouldRunNow is true exactly when the expression has five fields set
\* apart by white space and every field matches its component of the time
C26_DueIffFiveFieldsMatch ==
  fnOut # <<>> /\ fnOut.op = "shouldRunNow" =>
    (fnOut.due <=>
       /\ Len(fnArgs.fields) = 5
       /\ \A i \in 1..5 : FieldDue(fnArgs.fields[i], TimeFields(now)[i]))

\* ------------------------------------------------------------------------
\* Cron master route: GET /api/cron/master
\* ------------------------------------------------------------------------
MaxCronTime == 360     \* the clock of the route stops here
CronSteps == {120}     \* a trigger every other minute

NoCronJob == [id |-> 0, job_name |-> "none", enabled |-> FALSE,
              cron_expression |-> <<>>, cooldown_seconds |-> Null,
              last_run_at |-> Null, last_status |-> "NULL",
              run_count |-> 0, fail_count |-> 0]

\* '*/2 * * * *', with a cooldown of five minutes
CronHealthCheck ==
  [NoCronJob EXCEPT !.id = 1, !.job_name = "health_check", !.enabled = TRUE,
                    !.cron_expression =
                       ExprText(<<Step(2), Wildcard, Wildcard, Wildcard,
                                  Wildcard>>, <<" ">>),
                    !.cooldown_seconds = Some(300)]

\* '0 2 * * *', no cooldown set
CronAuditNightly ==
  [NoCronJob EXCEPT !.id = 2, !.job_name = "audit_nightly", !.enabled = TRUE,
                    !.cron_expression =
                       ExprText(<<Exact(0), Exact(2), Wildcard, Wildcard,
                                  Wildcard>>, <<" ">>)]

\* '* * * * *' under a name that JOB_HANDLERS does not hold
CronUnregistered ==
  [NoCronJob EXCEPT !.id = 3, !.job_name = "cleanup", !.enabled = TRUE,
                    !.cron_expression =
                       ExprText(<<Wildcard, Wildcard, Wildcard, Wildcard,
                                  Wildcard>>, <<" ">>)]

NoRequest == [jobs |-> <<>>, idx |-> 0, results |-> <<>>, job |-> NoCronJob,
              jobStart |-> 0, outcome |-> "none"]

\* JOB_HANDLERS: what each registered handler can do; health_check reads the
\* store, so it may report failure or throw
CronHandlerOutcomes(job_name) ==
  CASE job_name = "health_check"  -> {"success", "failure", "throw"}
    [] job_name = "audit_nightly" -> {"success"}
    [] OTHER                      -> {}

HasHandler(job_name) == job_name \in {"health_check", "audit_nightly"}

\* the cooldown test without its effect
InCooldown_never(job) == FALSE

\* if (job.last_run_at) { ... Date.now() - lastRun < cooldownMs }
InCooldown(job) ==
  /\ job.last_run_at # Null
  /\ LET cooldown == IF job.cooldown_seconds = Null \/ job.cooldown_seconds = <<0>>
                     THEN 60 ELSE job.cooldown_seconds[1]
     IN now - job.last_run_at[1] < cooldown

\* the orders in which a select without an order clause may return the rows
Orderings(rows) ==
  {q \in [1..Cardinality(rows) -> rows] :
     \A i, j \in 1..Cardinality(rows) : i # j => q[i] # q[j]}

\* an authorised request arrives
GetStart(t) ==
  /\ tpc[t] = "idle"
  /\ nextInstance < MaxTicks
  /\ nextInstance' = nextInstance + 1
  /\ tpc' = [tpc EXCEPT ![t] = "get_fetch"]
  /\ tloc' = [tloc EXCEPT ![t] = NoRequest]
  /\ tret' = [tret EXCEPT ![t] = "none"]
  /\ UNCHANGED <<now, wqVars, fnVars, cron_locks, autonomous_jobs,
                 autonomous_runs, alerts, handler_calls, abandoned, crashed>>

\* the select of the enabled jobs; on error an alert and a 500
GetFetch(t, error) ==
  /\ tpc[t] = "get_fetch"
  /\ IF error
     THEN /\ alerts' = alerts + 1
          /\ tret' = [tret EXCEPT ![t] = [status |-> 500, results |-> <<>>]]
          /\ tpc' = [tpc EXCEPT ![t] = "idle"]
          /\ UNCHANGED tloc
     ELSE /\ \E q \in Orderings({j \in autonomous_jobs : j.enabled}) :
               tloc' = [tloc EXCEPT ![t].jobs = q, ![t].idx = 1]
          /\ tpc' = [tpc EXCEPT ![t] = "get_loop"]
          /\ UNCHANGED <<alerts, tret>>
  /\ UNCHANGED <<now, wqVars, fnVars, cron_locks, autonomous_jobs,
                 autonomous_runs, handler_calls, abandoned, nextInstance, crashed>>

JobResultRow(job, shouldRun, ran, success, details) ==
  [job_name |-> job.job_name, should_run |-> shouldRun, ran |-> ran,
   success |-> success, details |-> details]

\* head of the for loop: the schedule, the cooldown, the handler lookup
GetLoop(t) ==
  /\ tpc[t] = "get_loop"
  /\ IF tloc[t].idx > Len(tloc[t].jobs)
     THEN /\ tret' = [tret EXCEPT ![t] = [status |-> 200,
                                          results |-> tloc[t].results]]
          /\ tpc' = [tpc EXCEPT ![t] = "idle"]
          /\ tloc' = [tloc EXCEPT ![t] = NoRequest]
     ELSE LET job == tloc[t].jobs[tloc[t].idx]
              shouldRun == shouldRunNow(job.cron_expression)
              skip(details) ==
                /\ tloc' = [tloc EXCEPT
                     ![t].results = Append(@, JobResultRow(job, shouldRun,
                                                 FALSE, Null, details)),
                     ![t].idx = @ + 1]
                /\ UNCHANGED tpc
          IN /\ UNCHANGED tret
             /\ IF ~shouldRun THEN skip("none")
                ELSE IF InCooldown(job) THEN skip("In cooldown period")
                ELSE IF ~HasHandler(job.job_name)
                THEN skip("No handler registered")
                ELSE /\ tloc' = [tloc EXCEPT ![t].job = job,
                                             ![t].jobStart = now]
                     /\ tpc' = [tpc EXCEPT ![t] = "get_handler"]
  /\ UNCHANGED <<now, wqVars, fnVars, cron_locks, autonomous_jobs,
                 autonomous_runs, alerts, handler_calls, abandoned, nextInstance,
                 crashed>>

\* const outcome = await handler(), and the alert of the catch block
GetHandler(t, outcome) ==
  /\ tpc[t] = "get_handler"
  /\ outcome \in CronHandlerOutcomes(tloc[t].job.job_name)
  /\ handler_calls' = handler_calls + 1
  /\ alerts' = IF outcome = "throw" THEN alerts + 1 ELSE alerts
  /\ tloc' = [tloc EXCEPT ![t].outcome = outcome]
  /\ tpc' = [tpc EXCEPT ![t] = "get_record"]
  /\ UNCHANGED <<now, wqVars, fnVars, cron_locks, autonomous_jobs,
                 autonomous_runs, abandoned, tret, nextInstance, crashed>>

\* CREATE TYPE run_status
run_status == {"RUNNING", "SUCCESS", "FAIL", "DEGRADED", "TIMEOUT", "SKIPPED"}

\* the insert of the run and the update of the job. Their results are not
\* looked at. The route handles a table of jobs with columns the migration
\* does not create, so the type of the status columns it writes to is that
\* of its own deployment: a status outside run_status is stored where the
\* column is text and refused, insert and update both, where it is the enum
GetRecord(t, accepted) ==
  /\ tpc[t] = "get_record"
  /\ LET job == tloc[t].job
         ok == tloc[t].outcome = "success"
         thrown == tloc[t].outcome = "throw"
         status == IF ok THEN "SUCCESS" ELSE "FAILED"
     IN /\ status \in run_status => accepted
        /\ IF accepted
           THEN /\ autonomous_runs' = autonomous_runs \cup
                     {[id |-> Cardinality(autonomous_runs) + 1,
                       job_id |-> job.id,
                       status |-> status, started_at |-> tloc[t].jobStart,
                       completed_at |-> now,
                       duration_ms |-> (now - tloc[t].jobStart) * 1000]}
                /\ autonomous_jobs' =
                     {IF j.id = job.id
                      THEN [j EXCEPT !.last_run_at = Some(now),
                                     !.last_status = status,
                                     !.run_count = IF thrown THEN @
                                                   ELSE job.run_count + 1,
                                     !.fail_count = IF ok THEN job.fail_count
                                                    ELSE job.fail_count + 1]
                      ELSE j : j \in autonomous_jobs}
           ELSE UNCHANGED <<autonomous_runs, autonomous_jobs>>
        /\ tloc' = [tloc EXCEPT
             ![t].results = Append(@, JobResultRow(job, TRUE, TRUE, Some(ok),
                                                   tloc[t].outcome)),
             ![t].idx = @ + 1]
  /\ tpc' = [tpc EXCEPT ![t] = "get_loop"]
  /\ UNCHANGED <<now, wqVars, fnVars, cron_locks, alerts, handler_calls, abandoned, tret,
                 nextInstance, crashed>>

\* time passes between two triggers and while a handler runs
AdvanceCron(d) ==
  /\ \A t \in TickSlots : tpc[t] \in {"idle", "get_handler"}
  /\ now + d <= MaxCronTime
  /\ now' = now + d
  /\ UNCHANGED <<wqVars, lockVars, fnVars>>

InitCron ==
  /\ InitFnIdle
  /\ now = 0
  /\ audit_issues = <<>>
  /\ work_items = {}
  /\ pc = [p \in Procs |-> "idle"]
  /\ loc = [p \in Procs |-> NoLoc]
  /\ ret = [p \in Procs |-> NoRet]
  /\ chain = [id \in CallIds |-> 0]
  /\ cron_locks = {}
  /\ autonomous_jobs = {CronHealthCheck, CronAuditNightly, CronUnregistered}
  /\ autonomous_runs = {}
  /\ alerts = 0
  /\ handler_calls = 0
  /\ abandoned = {}
  /\ tpc = [t \in Slots |-> "idle"]
  /\ tloc = [t \in Slots |-> NoRequest]
  /\ tret = [t \in Slots |-> "none"]
  /\ nextInstance = 0
  /\ crashed = {}

NextCron ==
  \/ \E t \in TickSlots :
       \/ GetStart(t)
       \/ \E error \in BOOLEAN : GetFetch(t, error)
       \/ GetLoop(t)
       \/ \E o \in {"success", "failure", "throw"} : GetHandler(t, o)
       \/ \E accepted \in BOOLEAN : GetRecord(t, accepted)
  \/ \E d \in CronSteps : AdvanceCron(d)

SpecCron == InitCron /\ [][NextCron]_vars

\* C25: a job that is due by its schedule while last_run_at plus
\* cooldown_seconds has not yet elapsed is reported due, not run, with the
\* cooldown as reason; its handler is not invoked and neither a run row nor
\* the job row is written
C25_CooldownSkips ==
  [][\A t \in Slots :
       (/\ tpc[t] = "get_loop"
        /\ tloc[t].idx <= Len(tloc[t].jobs)
        /\ tloc'[t] # tloc[t]
        /\ LET job == tloc[t].jobs[tloc[t].idx]
           IN /\ shouldRunNow(job.cron_expression)
              /\ job.last_run_at # Null
              /\ job.cooldown_seconds # Null
              /\ now < job.last_run_at[1] + job.cooldown_seconds[1])
       => /\ tpc'[t] = "get_loop"
          /\ tloc'[t].idx = tloc[t].idx + 1
          /\ Len(tloc'[t].results) = Len(tloc[t].results) + 1
          /\ LET res == tloc'[t].results[Len(tloc'[t].results)]
             IN /\ res.job_name = tloc[t].jobs[tloc[t].idx].job_name
                /\ res.should_run
                /\ ~res.ran
                /\ res.details = "In cooldown period"
          /\ UNCHANGED <<handler_calls, autonomous_runs, autonomous_jobs>>]_vars

\* the job with a cooldown of 300 seconds, last run 120 seconds ago, has been
\* reported as due and not run
C25_Witness ==
  \E t \in Slots :
    /\ now = 120
    /\ \E j \in autonomous_jobs :
         /\ j.id = CronHealthCheck.id
         /\ j.cooldown_seconds = Some(300)
         /\ j.last_run_at = Some(0)
    /\ \E i \in 1..Len(tloc[t].results) :
         /\ tloc[t].results[i].job_name = "health_check"
         /\ tloc[t].results[i].should_run
         /\ ~tloc[t].results[i].ran
         /\ tloc[t].results[i].details = "In cooldown period"

\* ------------------------------------------------------------------------
\* Self-heal playbooks: defaultPlaybooks and findMatchingPlaybooks
\* ------------------------------------------------------------------------
NoMatch == [statusCode |-> Null, endpointContains |-> Null,
            pageContains |-> Null, issueCategory |-> Null,
            errorContains |-> Null]

defaultPlaybooks ==
  << [id |-> "pb_503_dynamic_pages",
      match |-> [NoMatch EXCEPT !.statusCode = Some(503),
                                !.pageContains = Some(<<"/", "a", "p", "p", "s">>)]],
     [id |-> "pb_api_500",
      match |-> [NoMatch EXCEPT !.statusCode = Some(500),
                                !.endpointContains = Some(<<"/", "a", "p", "i", "/">>)]],
     [id |-> "pb_db_connection",
      match |-> [NoMatch EXCEPT !.errorContains = Some(<<"S", "U", "P", "A", "B", "A", "S", "E">>)]],
     [id |-> "pb_high_latency",
      match |-> [NoMatch EXCEPT !.issueCategory = Some("PERF")]],
     [id |-> "pb_cron_limit",
      match |-> [NoMatch EXCEPT !.errorContains = Some(<<"c", "r", "o", "n", "_", "j", "o", "b", "s", "_", "l", "i", "m", "i", "t", "s", "_", "r", "e", "a", "c", "h", "e", "d">>)]] >>

\* truthiness of an optional number and of an optional string
TruthyNumber(o) == o # Null /\ o[1] # 0
TruthyString(o) == o # Null /\ o[1] # <<>>
TruthyName(o) == o # Null /\ o[1] # ""

\* incident.url || '', incident.errorMessage || ''
OrEmpty(o) == IF TruthyString(o) THEN o[1] ELSE <<>>

\* the filter callback with the status code as its only test
PlaybookMatches_statusOnly(pb, incident) ==
  ~(TruthyNumber(pb.match.statusCode)
    /\ incident.statusCode # pb.match.statusCode)

\* the callback of defaultPlaybooks.filter
PlaybookMatches(pb, incident) ==
  IF TruthyNumber(pb.match.statusCode)
     /\ incident.statusCode # pb.match.statusCode
  THEN FALSE
  ELSE IF TruthyString(pb.match.endpointContains)
     /\ ~includes(OrEmpty(incident.url), pb.match.endpointContains[1])
  THEN FALSE
  ELSE IF TruthyString(pb.match.pageContains)
     /\ ~includes(OrEmpty(incident.url), pb.match.pageContains[1])
  THEN FALSE
  ELSE IF TruthyName(pb.match.issueCategory)
     /\ pb.match.issueCategory[1] # incident.category
  THEN FALSE
  ELSE IF TruthyString(pb.match.errorContains)
     /\ ~includes(OrEmpty(incident.errorMessage), pb.match.errorContains[1])
  THEN FALSE
  ELSE TRUE

\* Array.prototype.filter
RECURSIVE filter(_, _)
filter(xs, incident) ==
  IF xs = <<>> THEN <<>>
  ELSE IF PlaybookMatches(Head(xs), incident)
  THEN <<Head(xs)>> \o filter(Tail(xs), incident)
  ELSE filter(Tail(xs), incident)

findMatchingPlaybooks(incident) == filter(defaultPlaybooks, incident)

IncidentCodes == {Null, Some(500), Some(503)}
IncidentUrls == {Null, Some(<<"/", "a", "p", "p", "s">>), Some(<<"/", "a", "p", "i", "/", "x">>), Some(<<"/">>)}
IncidentCategories == {"PERF", "OPS"}
IncidentErrors == {Null, Some(<<"S", "U", "P", "A", "B", "A", "S", "E">>), Some(<<"E", ":", " ", "c", "r", "o", "n", "_", "j", "o", "b", "s", "_", "l", "i", "m", "i", "t", "s", "_", "r", "e", "a", "c", "h", "e", "d">>), Some(<<"e">>)}

Incidents == [statusCode : IncidentCodes, url : IncidentUrls,
              category : IncidentCategories, errorMessage : IncidentErrors]

InitPlaybooks ==
  /\ fnArgs \in Incidents
  /\ fnOut = <<>>
  /\ now = 0
  /\ audit_issues = <<>>
  /\ work_items = {}
  /\ pc = [p \in Procs |-> "idle"]
  /\ loc = [p \in Procs |-> NoLoc]
  /\ ret = [p \in Procs |-> NoRet]
  /\ chain = [id \in CallIds |-> 0]
  /\ InitLockIdle

ApplyFindMatchingPlaybooks ==
  /\ fnOut = <<>>
  /\ fnOut' = [op |-> "findMatchingPlaybooks",
               playbooks |-> findMatchingPlaybooks(fnArgs)]
  /\ UNCHANGED <<now, wqVars, lockVars, fnArgs>>

NextPlaybooks == ApplyFindMatchingPlaybooks

SpecPlaybooks == InitPlaybooks /\ [][NextPlaybooks]_vars

\* every predicate field the playbook declares is satisfied by the incident
DeclaredFieldsHold(pb, incident) ==
  /\ pb.match.statusCode # Null => incident.statusCode = pb.match.statusCode
  /\ pb.match.endpointContains # Null =>
       incident.url # Null
       /\ includes(incident.url[1], pb.match.endpointContains[1])
  /\ pb.match.pageContains # Null =>
       incident.url # Null
       /\ includes(incident.url[1], pb.match.pageContains[1])
  /\ pb.match.issueCategory # Null =>
       incident.category = pb.match.issueCategory[1]
  /\ pb.match.errorContains # Null =>
       incident.errorMessage # Null
       /\ includes(incident.errorMessage[1], pb.match.errorContains[1])

\* where a playbook stands in the table
TableIndex(pb) ==
  CHOOSE i \in 1..Len(defaultPlaybooks) : defaultPlaybooks[i] = pb

\* C27: findMatchingPlaybooks returns exactly the playbooks whose every
\* declared predicate field the incident satisfies, in the order of the table
C27_MatchesAllDeclaredFields ==
  fnOut # <<>> /\ fnOut.op = "findMatchingPlaybooks" =>
    LET out == fnOut.playbooks
    IN /\ \A i \in 1..Len(defaultPlaybooks) :
            (\E k \in 1..Len(out) : out[k] = defaultPlaybooks[i])
              <=> DeclaredFieldsHold(defaultPlaybooks[i], fnArgs)
       /\ \A k \in 1..Len(out) : \E i \in 1..Len(defaultPlaybooks) :
            out[k] = defaultPlaybooks[i]
       /\ \A k, l \in 1..Len(out) :
            k < l => TableIndex(out[k]) < TableIndex(out[l])

\* a 503 on a locator holding "/apps" got the 503 playbook and, for its
\* error text, the database playbook behind it, and not the one for 500
C27_Witness ==
  /\ fnOut # <<>>
  /\ fnOut.op = "findMatchingPlaybooks"
  /\ fnArgs.statusCode = Some(503)
  /\ fnArgs.url = Some(<<"/", "a", "p", "p", "s">>)
  /\ Len(fnOut.playbooks) = 2
  /\ fnOut.playbooks[1].id = "pb_503_dynamic_pages"
  /\ fnOut.playbooks[2].id = "pb_db_connection"
  /\ \A k \in 1..Len(fnOut.playbooks) : fnOut.playbooks[k].id # "pb_api_500"

\* ------------------------------------------------------------------------
\* Proof report: computeGaps and generateProofReport
\* Timestamps are seconds; minutes and percentages are kept in tenths, the
\* unit both are rounded to.
\* ------------------------------------------------------------------------
MaxRuns    == 3       \* rows of a drawn run history
MaxReports == 2       \* reports generated over one history

ProofNow      == 7200
ProofHours    == {1, 24}

\* Math.round(num / den) for num >= 0, den > 0
MathRound(num, den) == (2 * num + den) \div (2 * den)

\* [...runs].sort((a, b) => time(a.created_at) - time(b.created_at)): the
\* sort is stable, so a row goes behind the rows of an earlier timestamp
\* and behind the rows of its own timestamp that came before it
sortByCreatedAt(runs) ==
  LET Before(j) ==
        Cardinality({k \in 1..Len(runs) :
          \/ runs[k].created_at < runs[j].created_at
          \/ runs[k].created_at = runs[j].created_at /\ k < j})
  IN [i \in 1..Len(runs) |->
        runs[CHOOSE j \in 1..Len(runs) : Before(j) = i - 1]]

\* gaps.sort((a, b) => b.minutes - a.minutes), stable
sortByMinutesDesc(gaps) ==
  LET Before(j) ==
        Cardinality({k \in 1..Len(gaps) :
          \/ gaps[k].minutes > gaps[j].minutes
          \/ gaps[k].minutes = gaps[j].minutes /\ k < j})
  IN [i \in 1..Len(gaps) |->
        gaps[CHOOSE j \in 1..Len(gaps) : Before(j) = i - 1]]

\* the loop over adjacent rows: a gap where diffMinutes > 2
adjacentGaps(sorted) ==
  LET Pair(i) == [start |-> sorted[i].created_at,
                  end |-> sorted[i + 1].created_at,
                  minutes |-> MathRound((sorted[i + 1].created_at
                                         - sorted[i].created_at) * 10, 60)]
      Wide(g) == g.end - g.start > 120
  IN SelectSeq([i \in 1..(Len(sorted) - 1) |-> Pair(i)], Wide)

\* the gaps of the rows in the order they arrive in
computeGaps_asGiven(runs) ==
  IF Len(runs) < 2 THEN <<>>
  ELSE sortByMinutesDesc(adjacentGaps(runs))

computeGaps(runs) ==
  IF Len(runs) < 2 THEN <<>>
  ELSE sortByMinutesDesc(adjacentGaps(sortByCreatedAt(runs)))

\* uptime as a whole percentage
uptimePct_wholePercent(successes, total) ==
  IF total > 0 THEN MathRound(successes * 100, total) * 10 ELSE 0

\* total > 0 ? Math.round((successes / total) * 1000) / 10 : 0
uptimePct(successes, total) ==
  IF total > 0 THEN MathRound(successes * 1000, total) ELSE 0

\* Math.max(...gaps.map(g => g.minutes)), 0 without gaps
maxGap(gaps) ==
  IF Len(gaps) > 0
  THEN CHOOSE m \in {gaps[i].minutes : i \in 1..Len(gaps)} :
         \A i \in 1..Len(gaps) : gaps[i].minutes <= m
  ELSE 0

\* the verdict without the uptime threshold
overall_healthy_noUptime(gaps, uptime, failures) ==
  Len(gaps) = 0 /\ failures = 0

\* verification.overall_healthy
overall_healthy(gaps, uptime, failures) ==
  Len(gaps) = 0 /\ uptime >= 995 /\ failures = 0

\* allRuns.slice(-50)
sliceLast(xs, n) ==
  IF Len(xs) <= n THEN xs ELSE SubSeq(xs, Len(xs) - n + 1, Len(xs))

\* gaps measured between all runs of the window
heartbeatRuns_everyRun(allRuns) == allRuns

\* allRuns.filter(r => r.heartbeat)
heartbeatRuns(allRuns) ==
  LET IsHeartbeat(r) == r.heartbeat
  IN SelectSeq(allRuns, IsHeartbeat)

\* the report built from the rows the query returned
generateProofReport(allRuns, hours) ==
  LET IsSuccess(r)   == r.status = "SUCCESS"
      IsFail(r)      == r.status = "FAIL"
      IsDegraded(r)  == r.status = "DEGRADED"
      hbRuns         == heartbeatRuns(allRuns)
      total          == Len(allRuns)
      successes      == Len(SelectSeq(allRuns, IsSuccess))
      failures       == Len(SelectSeq(allRuns, IsFail))
      degraded       == Len(SelectSeq(allRuns, IsDegraded))
      uptime         == uptimePct(successes, total)
      gaps           == computeGaps(hbRuns)
  IN [generated_at |-> now,
      window_hours |-> hours,
      summary |-> [total_runs |-> total,
                   successes |-> successes,
                   failures |-> failures,
                   degraded |-> degraded,
                   uptime_pct |-> uptime,
                   heartbeat_count |-> Len(hbRuns),
                   expected_heartbeats |-> hours * 60],
      gaps |-> gaps,
      max_gap_minutes |-> maxGap(gaps),
      sample_runs |-> sliceLast(allRuns, 50),
      verification |->
        [heartbeat_continuous |-> Len(gaps) = 0,
         uptime_threshold_met |-> uptime >= 995,
         no_critical_gaps |-> maxGap(gaps) < 50,
         overall_healthy |-> overall_healthy(gaps, uptime, failures)]]

\* .gte('created_at', since) with since = Date.now() - hours * 3600 * 1000
InWindow(rows, hours) ==
  {r \in rows : r.created_at >= now - hours * 3600}

\* the rows by created_at and, within one timestamp, by id
ById(rows) ==
  LET Before(r) ==
        Cardinality({o \in rows :
          \/ o.created_at < r.created_at
          \/ o.created_at = r.created_at /\ o.id < r.id})
  IN [i \in 1..Cardinality(rows) |->
        CHOOSE r \in rows : Before(r) = i - 1]

\* .order('created_at', { ascending: true }): rows of one timestamp come in
\* any order, rows of different timestamps in one order only
AscendingOrders(rows) ==
  IF \A r, o \in rows : r.created_at = o.created_at => r = o
  THEN { ById(rows) }
  ELSE { q \in Orderings(rows) :
           \A i \in 1..(Cardinality(rows) - 1) :
             q[i].created_at <= q[i + 1].created_at }

\* a drawn row and the order that picks one table out of those that differ
\* in their ids only
RunKey(r) ==
  r.created_at * 10
  + (CASE r.status = "SUCCESS" -> 0 [] r.status = "FAIL" -> 2 [] OTHER -> 4)
  + (IF r.heartbeat THEN 1 ELSE 0)

Kind(t, status, heartbeat) ==
  [created_at |-> t, status |-> status, heartbeat |-> heartbeat]

\* the rows a history is drawn from: heartbeat runs and other runs, before
\* the short window and in it, 60, 130, 470, 600 and 660 seconds apart
RunKinds ==
  { Kind(0, "SUCCESS", TRUE),     Kind(0, "DEGRADED", FALSE),
    Kind(6000, "SUCCESS", TRUE),  Kind(6000, "FAIL", TRUE),
    Kind(6000, "SUCCESS", FALSE),
    Kind(6060, "SUCCESS", TRUE),  Kind(6060, "DEGRADED", FALSE),
    Kind(6190, "SUCCESS", TRUE),
    Kind(6660, "SUCCESS", TRUE),  Kind(6660, "FAIL", TRUE),
    Kind(6660, "SUCCESS", FALSE) }

\* the tables of n rows, one for each set of n kinds
RECURSIVE KindSeqs(_)
KindSeqs(n) ==
  IF n = 0 THEN { <<>> }
  ELSE UNION { { Append(q, k) :
                 k \in {c \in RunKinds :
                          q = <<>> \/ RunKey(q[Len(q)]) < RunKey(c)} } :
               q \in KindSeqs(n - 1) }

\* the table holding the rows of q under ids 1..Len(q)
HistoryOf(q) ==
  { [id |-> i, created_at |-> q[i].created_at, status |-> q[i].status,
     heartbeat |-> q[i].heartbeat] : i \in 1..Len(q) }

\* one hundred heartbeat runs a minute apart, two of them failed
HundredRuns ==
  { [id |-> i, created_at |-> 60 * i,
     status |-> IF i \in {50, 51} THEN "FAIL" ELSE "SUCCESS",
     heartbeat |-> TRUE] : i \in 1..100 }

\* heartbeat runs at T, a minute later and eleven minutes later, and a run
\* that is no heartbeat five minutes after T
ElevenMinutes ==
  HistoryOf(<<Kind(6000, "SUCCESS", TRUE), Kind(6060, "SUCCESS", TRUE),
              Kind(6300, "SUCCESS", FALSE), Kind(6660, "SUCCESS", TRUE)>>)

\* successful heartbeat runs a minute apart through the last hour, but for
\* the minutes in missing
HourOfRuns(missing) ==
  { [id |-> i, created_at |-> 60 * i, status |-> "SUCCESS",
     heartbeat |-> TRUE] : i \in (60..120) \ missing }

InitProof ==
  /\ \/ \E n \in 0..MaxRuns : \E q \in KindSeqs(n) :
          autonomous_runs = HistoryOf(q)
     \/ autonomous_runs = HundredRuns
     \/ autonomous_runs = ElevenMinutes
     \/ autonomous_runs = HourOfRuns({})
     \/ autonomous_runs = HourOfRuns({90, 91})
  /\ fnArgs \in [hours : ProofHours]
  /\ fnOut = <<>>
  /\ now = ProofNow
  /\ audit_issues = <<>>
  /\ work_items = {}
  /\ pc = [p \in Procs |-> "idle"]
  /\ loc = [p \in Procs |-> NoLoc]
  /\ ret = [p \in Procs |-> NoRet]
  /\ chain = [id \in CallIds |-> 0]
  /\ cron_locks = {}
  /\ autonomous_jobs = {}
  /\ alerts = 0
  /\ handler_calls = 0
  /\ abandoned = {}
  /\ tpc = [t \in Slots |-> "idle"]
  /\ tloc = [t \in Slots |-> NoTick]
  /\ tret = [t \in Slots |-> "none"]
  /\ nextInstance = 0
  /\ crashed = {}

\* one call of generateProofReport(hours); fnOut keeps the reports written
GenerateProofReport ==
  /\ Len(fnOut) < MaxReports
  /\ \E allRuns \in AscendingOrders(InWindow(autonomous_runs, fnArgs.hours)) :
       fnOut' = Append(fnOut, generateProofReport(allRuns, fnArgs.hours))
  /\ UNCHANGED <<now, wqVars, lockVars, fnArgs>>

NextProof == GenerateProofReport

SpecProof == InitProof /\ [][NextProof]_vars

\* Math.floor(hours * 60 * 0.9)
expectedMinRuns(hours) == (hours * 60 * 9) \div 10

\* runProofTests on the report generateProofReport(hours) returned: the
\* failures pushed, in the order of the four tests
runProofTests(report, hours) ==
  LET failures ==
        (IF report.summary.uptime_pct < 995 THEN <<"uptime">> ELSE <<>>)
        \o (IF report.max_gap_minutes > 50 THEN <<"gap">> ELSE <<>>)
        \o (IF report.summary.total_runs < expectedMinRuns(hours)
            THEN <<"too_few_runs">> ELSE <<>>)
        \o (IF report.summary.failures > 0 THEN <<"failed_runs">> ELSE <<>>)
  IN [pass |-> Len(failures) = 0, failures |-> failures, report |-> report]

\* one call of runProofTests(hours); fnOut keeps the results returned
RunProofTests ==
  /\ Len(fnOut) < MaxReports
  /\ \E allRuns \in AscendingOrders(InWindow(autonomous_runs, fnArgs.hours)) :
       fnOut' = Append(fnOut,
                       runProofTests(generateProofReport(allRuns, fnArgs.hours),
                                     fnArgs.hours))
  /\ UNCHANGED <<now, wqVars, lockVars, fnArgs>>

NextProofTests == RunProofTests

SpecProofTests == InitProof /\ [][NextProofTests]_vars

\* the stored rows of the window of the pending call
WindowRuns == InWindow(autonomous_runs, fnArgs.hours)

\* C28: uptime_pct is successful runs over total runs of the window times
\* 100, to the nearest tenth, counted over all runs and not only over the
\* heartbeat runs; 98 SUCCESS and 2 FAIL out of 100 give 98.0
C28_UptimeOverAllRuns ==
  \A k \in 1..Len(fnOut) :
    LET total     == Cardinality(WindowRuns)
        successes == Cardinality({r \in WindowRuns : r.status = "SUCCESS"})
        uptime    == fnOut[k].summary.uptime_pct
    IN /\ fnOut[k].summary.total_runs = total
       /\ fnOut[k].summary.successes = successes
       /\ total > 0 => 2 * Abs(uptime * total - 1000 * successes) <= total
       /\ (total = 100 /\ successes = 98) => uptime = 980

\* the report over the hundred runs says 98.0
C28_Witness ==
  /\ autonomous_runs = HundredRuns
  /\ fnArgs.hours = 24
  /\ Len(fnOut) >= 1
  /\ fnOut[1].summary.total_runs = 100
  /\ fnOut[1].summary.successes = 98
  /\ fnOut[1].summary.failures = 2
  /\ fnOut[1].summary.uptime_pct = 980

\* C29: overall_healthy is true exactly when no gap is recorded, uptime is
\* at least 99.5 %, the largest gap is under 5 minutes and no run of the
\* window has status FAIL
C29_HealthyIffAllFour ==
  \A k \in 1..Len(fnOut) :
    fnOut[k].verification.overall_healthy
      <=> /\ Len(fnOut[k].gaps) = 0
          /\ fnOut[k].summary.uptime_pct >= 995
          /\ fnOut[k].max_gap_minutes < 50
          /\ \A r \in WindowRuns : r.status # "FAIL"

\* heartbeats at T, T + 1 min and T + 11 min, all successful: one gap of
\* ten minutes is recorded and the report is not healthy
C29_Witness ==
  /\ {[created_at |-> r.created_at, status |-> r.status,
       heartbeat |-> r.heartbeat] : r \in autonomous_runs}
       = {[created_at |-> t, status |-> "SUCCESS", heartbeat |-> TRUE] :
            t \in {6000, 6060, 6660}}
  /\ Len(fnOut) >= 1
  /\ Len(fnOut[1].gaps) = 1
  /\ fnOut[1].gaps[1] = [start |-> 6060, end |-> 6660, minutes |-> 100]
  /\ fnOut[1].max_gap_minutes = 100
  /\ fnOut[1].summary.uptime_pct = 1000
  /\ ~fnOut[1].verification.no_critical_gaps
  /\ ~fnOut[1].verification.overall_healthy

\* what the claim compares between reports
ReportNumbers(report) ==
  [summary |-> report.summary, gaps |-> report.gaps,
   max_gap_minutes |-> report.max_gap_minutes,
   verification |-> report.verification]

\* C30: reports generated for the same window over the same run history
\* carry the same summary counts, uptime_pct, gaps, max_gap_minutes and
\* verification flags, however often they are generated and in whatever
\* order the stored rows are taken
C30_RegenerationSameNumbers ==
  /\ \A k, l \in 1..Len(fnOut) :
       ReportNumbers(fnOut[k]) = ReportNumbers(fnOut[l])
  /\ Cardinality(WindowRuns) <= MaxRuns =>
       \A k \in 1..Len(fnOut) : \A q \in Orderings(WindowRuns) :
         ReportNumbers(generateProofReport(q, fnArgs.hours))
           = ReportNumbers(fnOut[k])

\* two reports over rows of one timestamp that the query returned in two
\* orders, with a gap recorded
C30_Witness ==
  /\ Len(fnOut) = 2
  /\ fnOut[1].sample_runs # fnOut[2].sample_runs
  /\ Len(fnOut[1].gaps) >= 1
  /\ fnOut[1].summary.total_runs = 3
  /\ ReportNumbers(fnOut[1]) = ReportNumbers(fnOut[2])

\* the times of the heartbeat runs of the window of the pending call
HeartbeatTimes == {r.created_at : r \in {h \in WindowRuns : h.heartbeat}}

\* the pairs of heartbeat times with no heartbeat time between them that lie
\* more than two minutes apart
WideSteps ==
  {p \in HeartbeatTimes \X HeartbeatTimes :
     /\ p[1] < p[2]
     /\ ~ \E m \in HeartbeatTimes : p[1] < m /\ m < p[2]
     /\ p[2] - p[1] > 120}

\* C36: computeGaps records a gap for exactly the adjacent heartbeat runs
\* that lie more than two minutes apart, with the distance in minutes; runs
\* that are no heartbeat neither make nor close a gap, and with fewer than
\* two heartbeat runs there is no gap
C36_GapsAreWideHeartbeatSteps ==
  \A i \in 1..Len(fnOut) :
    LET gaps == fnOut[i].gaps
    IN /\ Len(gaps) = Cardinality(WideSteps)
       /\ {<<gaps[k].start, gaps[k].end>> : k \in 1..Len(gaps)} = WideSteps
       /\ \A k \in 1..Len(gaps) :
            gaps[k].minutes = MathRound((gaps[k].end - gaps[k].start) * 10, 60)
       /\ Cardinality({h \in WindowRuns : h.heartbeat}) < 2 => gaps = <<>>

\* heartbeat runs at T, T + 1 minute and T + 11 minutes: one gap of ten
\* minutes from the second to the third
C36_Witness ==
  /\ Len(fnOut) > 0
  /\ HeartbeatTimes = {6000, 6060, 6660}
  /\ \E r \in WindowRuns : ~ r.heartbeat /\ r.created_at = 6300
  /\ Len(fnOut[1].gaps) = 1
  /\ fnOut[1].gaps[1] = [start |-> 6060, end |-> 6660, minutes |-> 100]

\* C40: whenever runProofTests returns pass = true, the report it is based
\* on has verification.overall_healthy = true
C40_PassImpliesHealthy ==
  \A k \in 1..Len(fnOut) :
    fnOut[k].pass => fnOut[k].report.verification.overall_healthy

\* C31: in every reachable state the status of every row of
\* autonomous_runs, whichever entry point wrote it, is one of RUNNING,
\* SUCCESS, FAIL, DEGRADED, TIMEOUT, SKIPPED
C31_RunStatusInEnum ==
  \A r \in autonomous_runs : r.status \in run_status

\* C33: the final status of the run of an executed job is SUCCESS when the
\* handler returned without issues > 0 and fixes = 0, DEGRADED when it
\* returned with issues > 0 and fixes = 0, TIMEOUT when the timer won the
\* race, FAIL when the handler threw, and it is the status the row is given
C33_StatusClassifiesOutcome ==
  [][\A t \in TickSlots :
       /\ (tpc[t] = "exec" /\ tpc'[t] = "update_run") =>
            \E o \in HandlerOutcomes(tloc[t].job.handler) :
              /\ tloc'[t].errorMsg = ErrorMessage(o)
              /\ tloc'[t].status =
                   (CASE o = "timeout" -> "TIMEOUT"
                      [] o = "throw" -> "FAIL"
                      [] OTHER ->
                           IF tloc'[t].issues > 0 /\ tloc'[t].fixes = 0
                           THEN "DEGRADED" ELSE "SUCCESS")
              /\ o \in {"ok", "issues"} =>
                   /\ tloc'[t].issues = HandlerResult(o).issues
                   /\ tloc'[t].fixes = HandlerResult(o).fixes
       /\ (tpc[t] = "update_run" /\ tpc'[t] = "update_job") =>
            \E r \in autonomous_runs' :
              /\ r.id = tloc[t].runId
              /\ r.status = tloc[t].status
              /\ r.issues_detected_count = tloc[t].issues
              /\ r.fixes_applied_count = tloc[t].fixes]_vars

\* the table holds a finished run of each of the four kinds
C33_Witness ==
  \A st \in {"SUCCESS", "DEGRADED", "TIMEOUT", "FAIL"} :
    \E r \in autonomous_runs : r.status = st /\ r.completed_at # Null

\* the row of job id in a table of jobs
JobRow(rows, id) == CHOOSE j \in rows : j.id = id

\* ------------------------------------------------------------------------
\* A handler the timer outran runs to its end
\* ------------------------------------------------------------------------
\* degradedRuns?.length of executeSelfHealMonitor: the FAIL and DEGRADED runs
\* of the last hour, ten at most
IssuesFound ==
  LET n == Cardinality({r \in autonomous_runs :
                          /\ r.status \in {"FAIL", "DEGRADED"}
                          /\ r.started_at >= now - 3600})
  IN IF n > 10 THEN 10 ELSE n

\* the promise of executeHandler settles after the race was lost: the
\* monitor has read the runs and alerted on more than three of them, the
\* other handlers have built their result; nobody awaits what it returns
AbandonedCompletes(a) ==
  /\ a \in abandoned
  /\ abandoned' = abandoned \ {a}
  /\ alerts' = IF a.handler = "selfheal.monitor" /\ IssuesFound > 3
               THEN alerts + 1 ELSE alerts
  /\ UNCHANGED <<now, wqVars, fnVars, cron_locks, autonomous_jobs,
                 autonomous_runs, handler_calls, tpc, tloc, tret,
                 nextInstance, crashed>>

NextAbandon ==
  \/ \E t \in TickSlots :
       \/ AcqStart(t)
       \/ AcqDelete(t)
       \/ AcqInsert(t)
       \/ \E jobsError \in BOOLEAN : FetchJobs(t, jobsError)
       \/ LoopNext(t)
       \/ \E o \in {"ok", "issues", "timeout", "throw"} : Exec(t, o)
       \/ UpdateRun(t)
       \/ UpdateJob(t)
       \/ JobLoopThrow(t)
       \/ Finally(t)
  \/ \E a \in abandoned : AbandonedCompletes(a)

SpecAbandon == InitSiblings /\ [][NextAbandon]_vars

\* C35: when the timer fires before the handler resolves the run is recorded
\* as TIMEOUT and the tick goes on to the next job without waiting for the
\* handler; the handler is not cancelled, and when it completes later neither
\* the Run row nor the Job row changes
C35_AbandonedHandlerChangesNothing ==
  [][/\ \A t \in TickSlots :
          /\ (tpc[t] = "exec" /\ tloc'[t].errorMsg = "Job timeout") =>
               /\ tloc'[t].status = "TIMEOUT"
               /\ tpc'[t] = "update_run"
               /\ \E a \in abandoned' \ abandoned : a.runId = tloc[t].runId
          /\ (tpc[t] = "update_run" /\ tpc'[t] = "update_job"
              /\ tloc[t].errorMsg = "Job timeout") =>
               JobRow(autonomous_runs', tloc[t].runId).status = "TIMEOUT"
          /\ (tpc'[t] # tpc[t] /\ tpc[t] # "exec") =>
               abandoned' = abandoned
     /\ \A a \in abandoned \ abandoned' :
          UNCHANGED <<autonomous_runs, autonomous_jobs, tpc, tloc, tret>>]_vars

\* the monitor's run stands as TIMEOUT, the tick has gone on and finished the
\* run of the next job, and the monitor's handler is still running
C35_Witness ==
  /\ \E a \in abandoned :
       /\ a.handler = "selfheal.monitor"
       /\ JobRow(autonomous_runs, a.runId).status = "TIMEOUT"
       /\ \E r \in autonomous_runs :
            /\ r.id > a.runId
            /\ r.status = "SUCCESS"
            /\ r.completed_at # Null
  /\ \E t \in TickSlots : tret[t] = "done"

\* C34: after each job execution next_run_at is the current time plus the
\* interval configured for the job, whether it is scheduled by interval or
\* by cron, and 60 seconds ahead only for a job with no interval configured
C34_NextRunIsNowPlusInterval ==
  [][\A t \in TickSlots :
       (tpc[t] = "update_job" /\ tpc'[t] = "loop") =>
         LET job == tloc[t].job
             interval == IF job.interval_seconds # Null
                         THEN job.interval_seconds[1] ELSE 60
         IN JobRow(autonomous_jobs', job.id).next_run_at
              = Some(now + interval)]_vars

\* ------------------------------------------------------------------------
\* runOnce over job rows in every state of their schedule
\* ------------------------------------------------------------------------
\* how a row can be scheduled: by interval, by interval with no seconds
\* given, by cron with the interval of an hour given, by cron with none
Schedules ==
  { [schedule_type |-> "interval", interval_seconds |-> Some(120)],
    [schedule_type |-> "interval", interval_seconds |-> Null],
    [schedule_type |-> "cron", interval_seconds |-> Some(3600)],
    [schedule_type |-> "cron", interval_seconds |-> Null] }

NextRuns == {Null, Some(300)}

\* the heartbeat row, enabled or not, in each schedule, due or not
HeartbeatRows ==
  { [JobHeartbeat EXCEPT !.enabled = e,
                         !.schedule_type = sch.schedule_type,
                         !.interval_seconds = sch.interval_seconds,
                         !.next_run_at = n] :
    e \in BOOLEAN, sch \in Schedules, n \in NextRuns }

InitDue ==
  /\ InitFnIdle
  /\ now = 0
  /\ audit_issues = <<>>
  /\ work_items = {}
  /\ pc = [p \in Procs |-> "idle"]
  /\ loc = [p \in Procs |-> NoLoc]
  /\ ret = [p \in Procs |-> NoRet]
  /\ chain = [id \in CallIds |-> 0]
  /\ cron_locks = {}
  /\ \E h \in HeartbeatRows : autonomous_jobs = {h, JobSelfHeal}
  /\ autonomous_runs = {}
  /\ alerts = 0
  /\ handler_calls = 0
  /\ abandoned = {}
  /\ tpc = [t \in Slots |-> "idle"]
  /\ tloc = [t \in Slots |-> NoTick]
  /\ tret = [t \in Slots |-> "none"]
  /\ nextInstance = 0
  /\ crashed = {}

NextDue ==
  \/ \E t \in TickSlots :
       \/ AcqStart(t)
       \/ AcqDelete(t)
       \/ AcqInsert(t)
       \/ \E jobsError \in BOOLEAN : FetchJobs(t, jobsError)
       \/ LoopNext(t)
       \/ \E o \in {"ok", "issues", "timeout", "throw"} : Exec(t, o)
       \/ UpdateRun(t)
       \/ UpdateJob(t)
       \/ JobLoopThrow(t)
       \/ Finally(t)
  \/ \E d \in TickSteps : AdvanceTick(d)

SpecDue == InitDue /\ [][NextDue]_vars

\* the job is enabled and its next_run_at is unset or not later than now
EnabledAndDue(job) ==
  job.enabled /\ (job.next_run_at = Null \/ job.next_run_at[1] <= now)

\* C32: a tick executes a job exactly when the job is enabled and its
\* next_run_at is unset or not later than now, the job being the row as the
\* tick fetched it: the tick holds every enabled row and no other, a step of
\* the loop that does not leave it by an error starts a run for a row that is
\* enabled and due and passes over every other row, and every run that
\* starts is one of a row that is enabled and due
C32_ExecutesIffEnabledAndDue ==
  [][\A t \in TickSlots :
       /\ (tpc[t] = "fetch" /\ tpc'[t] = "loop") =>
            {tloc'[t].jobs[i] : i \in 1..Len(tloc'[t].jobs)}
              = {j \in autonomous_jobs : j.enabled}
       /\ (tpc[t] = "loop" /\ tloc[t].idx <= Len(tloc[t].jobs)
           /\ tpc'[t] \in {"loop", "exec"} /\ tloc'[t] # tloc[t]) =>
            LET job == tloc[t].jobs[tloc[t].idx]
            IN /\ (/\ tpc'[t] = "exec"
                   /\ tloc'[t].job = job
                   /\ \E r \in autonomous_runs' \ autonomous_runs :
                        r.job_id = job.id /\ r.status = "RUNNING")
                    <=> EnabledAndDue(job)
               /\ ~EnabledAndDue(job) =>
                    /\ tpc'[t] = "loop"
                    /\ tloc'[t].idx = tloc[t].idx + 1
                    /\ UNCHANGED <<autonomous_runs, handler_calls>>
       /\ (tpc[t] # "exec" /\ tpc'[t] = "exec") =>
            EnabledAndDue(tloc'[t].job)]_vars

\* the tick has passed over the enabled heartbeat row whose next_run_at lies
\* 300 seconds ahead and has run the monitor behind it, and another table
\* holds the heartbeat row disabled with no run of it
C32_Witness ==
  /\ now = 0
  /\ \E j \in autonomous_jobs :
       j.id = JobHeartbeat.id /\ j.enabled /\ j.next_run_at = Some(300)
  /\ \E r \in autonomous_runs : r.job_id = JobSelfHeal.id
  /\ \A r \in autonomous_runs : r.job_id # JobHeartbeat.id
  /\ \E t \in TickSlots : tret[t] = "done"

\* C21: after each job execution the job's consecutive_failures is the value
\* the row held before plus one when the run ended FAIL, and 0 for every
\* other status
C21_StreakFollowsStatus ==
  [][\A t \in Slots :
       (tpc[t] = "update_job" /\ tpc'[t] = "loop") =>
         JobRow(autonomous_jobs', tloc[t].job.id).consecutive_failures =
           IF tloc[t].status = "FAIL"
           THEN JobRow(autonomous_jobs, tloc[t].job.id).consecutive_failures + 1
           ELSE 0]_vars

\* C22: a run that ends TIMEOUT increments the job's consecutive_failures as
\* a FAIL does and does not reset it
C22_TimeoutCountsAsFailure ==
  [][\A t \in Slots :
       (tpc[t] = "update_job" /\ tpc'[t] = "loop"
        /\ tloc[t].status = "TIMEOUT") =>
         JobRow(autonomous_jobs', tloc[t].job.id).consecutive_failures =
           JobRow(autonomous_jobs, tloc[t].job.id).consecutive_failures + 1]_vars

\* C23: a handler that throws or times out is caught within its own job: the
\* loop goes on to record the run, and a tick that returns has left no job due
\* and has recorded every job it ran
C23_FailureIsolated ==
  [][\A t \in Slots :
       /\ (tpc[t] = "exec" /\ tpc'[t] # "exec") =>
            (tpc'[t] = "update_run" /\ ~tloc'[t].thrown)
       /\ (tpc[t] = "finally" /\ tpc'[t] = "idle" /\ tret'[t] = "done") =>
            \A j \in autonomous_jobs :
              /\ ~isDue(j)
              /\ j.last_run_at # Null =>
                   \E r \in autonomous_runs :
                     /\ r.job_id = j.id
                     /\ r.status = j.last_status
                     /\ r.completed_at = j.last_run_at]_vars

\* a tick has returned after the monitor failed, and the jobs behind it in the
\* same tick have their runs
C23_Witness ==
  \E t \in Slots :
    /\ tpc[t] = "idle"
    /\ tret[t] = "done"
    /\ \E r1, r2, r3 \in autonomous_runs :
         /\ r1.instance = r2.instance
         /\ r2.instance = r3.instance
         /\ r1.job_id = JobSelfHeal.id /\ r1.status = "FAIL"
         /\ r2.job_id = JobMonitorAt80.id /\ r2.status = "TIMEOUT"
         /\ r3.job_id = JobWorkqueue.id /\ r3.status = "SUCCESS"

\* C24: an alert is sent for a job execution exactly when the execution
\* failed and the job's priority is above the threshold
C24_AlertIffFailedAboveThreshold ==
  [][\A t \in Slots :
       (tpc[t] = "exec" /\ tpc'[t] = "update_run") =>
         ((alerts' = alerts + 1) <=>
            (tloc'[t].status \in {"FAIL", "TIMEOUT"}
             /\ tloc[t].job.priority > ALERT_PRIORITY))
         /\ alerts' \in {alerts, alerts + 1}]_vars

====
